---------------------------- MODULE Spec2Model ----------------------------
(***************************************************************************)
(* Omega2D element collections: ElementBase (ElementBase.h) and Surfaces   *)
(* (Surfaces.h), with the rigid Body they may be attached to.              *)
(*                                                                         *)
(* Number representation.  Every float or double of the code (positions,  *)
(* velocities, strengths, areas, basis vectors, vol, utc, tc, rotation     *)
(* rates) is a fixed-point integer counted in 1/Unit.  Times, time steps   *)
(* and the orientation of a Body are plain integers.  NaN stands for a     *)
(* non-finite floating-point result (x/0, 0*inf), Indet for the            *)
(* indeterminate value of a member that was never assigned.                *)
(* Code indices are 0-based; sequences here are 1-based, so code element i *)
(* is sequence element i+1.  Dimension d of the code is tuple slot d+1.    *)
(***************************************************************************)
EXTENDS Integers, Sequences, FiniteSets, TLC

\* ------------------------------------------------------------------ bounds
MaxTime == 1      \* times t handed to transform / move: 0..MaxTime
MaxVel  == 1      \* node velocities written through get_vel(): 0..MaxVel
MaxOps  == 2      \* operations applied to one collection after construction
MaxNodes == 5     \* add_new is applied while the node count stays within MaxNodes
MaxPts  == 2      \* elements a Points collection is created with: 0..MaxPts
MaxFlat == 8      \* length of the packed array handed to ElementBase::add_new: 0..MaxFlat
MaxSurfs == 2     \* boundary collections the BEM driver packs into one system
MaxHybridOps == 3 \* operations applied to a Hybrid
MaxVolumes == 2   \* Euler volumes handed to a Hybrid: 0..MaxVolumes
MaxSoln == 1      \* solution points the solver keeps in a volume: 0..MaxSoln
MaxLoads == 2     \* configuration documents a Hybrid is made to read
MaxRotOps == 3    \* rotation-strength operations applied to a Surfaces

\* ------------------------------------------------------- number modelling
Unit == 1000
NaN  == 0 - (Unit * Unit * Unit)
Indet == NaN - 1

Abs(v) == IF v < 0 THEN 0 - v ELSE v

IsNum(v) == v # NaN /\ v # Indet

\* the result of an operation one of whose operands is not a number
Bad(a, b) == IF a = Indet \/ b = Indet THEN Indet ELSE NaN

\* floating-point division a/b of two fixed-point numbers; x/0 is not finite
FDiv(a, b) == IF ~IsNum(a) \/ ~IsNum(b) THEN Bad(a, b)
              ELSE IF b = 0 THEN NaN ELSE (a * Unit) \div b

\* product of two fixed-point numbers
FMul(a, b) == IF ~IsNum(a) \/ ~IsNum(b) THEN Bad(a, b) ELSE (a * b) \div Unit

FAdd(a, b) == IF ~IsNum(a) \/ ~IsNum(b) THEN Bad(a, b) ELSE a + b

FSub(a, b) == IF ~IsNum(a) \/ ~IsNum(b) THEN Bad(a, b) ELSE a - b

RECURSIVE SqrtSearch(_, _, _)
SqrtSearch(v, lo, hi) ==
    IF lo >= hi THEN lo
    ELSE LET mid == (lo + hi + 1) \div 2
         IN  IF mid * mid <= v THEN SqrtSearch(v, mid, hi)
                               ELSE SqrtSearch(v, lo, mid - 1)

\* std::sqrt(a*a + b*b) of two fixed-point numbers (rounded down)
FHypot(a, b) ==
    SqrtSearch(a * a + b * b, IF Abs(a) > Abs(b) THEN Abs(a) ELSE Abs(b), Abs(a) + Abs(b))

\* std::sin / std::cos of M_PI*theta/180 for theta a multiple of 90 (exact)
SinDeg(theta) == CASE theta % 360 = 0   -> 0
                   [] theta % 360 = 90  -> Unit
                   [] theta % 360 = 180 -> 0
                   [] OTHER             -> 0 - Unit

CosDeg(theta) == CASE theta % 360 = 0   -> Unit
                   [] theta % 360 = 90  -> 0
                   [] theta % 360 = 180 -> 0 - Unit
                   [] OTHER             -> 0

\* std::sin / std::cos of theta radians, fixed-point, for the orientations a Body takes
SinRad(theta) == CASE theta = 0   -> 0
                   [] theta = 90  -> 894
                   [] theta = 180 -> 0 - 801
                   [] OTHER       -> 0 - 176

CosRad(theta) == CASE theta = 0   -> Unit
                   [] theta = 90  -> 0 - 448
                   [] theta = 180 -> 0 - 598
                   [] OTHER       -> 984

\* ------------------------------------------------------------- containers
\* std::optional<T>: <<>> is nullopt, <<v>> holds v
None == << >>

Some(v) == << v >>

Has(o) == Len(o) = 1

Val(o) == o[1]

\* v[i] for a 0-based code index i; g is what an out-of-bounds read yields
At(v, i, g) == IF i + 1 \in 1..Len(v) THEN v[i + 1] ELSE g

Zeros(k) == [i \in 1..k |-> 0]

\* std::vector::resize(k): truncate, or extend with value-initialised entries
Resize(v, k) == [i \in 1..k |-> IF i <= Len(v) THEN v[i] ELSE 0]

InRange(k, len) == k \in 0..(len - 1)

\* ------------------------------------------------------------------- Body
\* A non-ground Body translates with unit velocity along x and turns by 90 per
\* unit of time; the ground Body never moves.
BodyNames == {"ground", "body"}

BodyPosAt(name, t) == IF name = "ground" THEN <<0, 0>> ELSE <<t * Unit, 0>>

BodyOrientAt(name, t) == IF name = "ground" THEN 0 ELSE 90 * (t % 4)

BodyRotvelAt(name, t) == IF name = "ground" THEN 0 ELSE 90 * Unit

\* Body::Body: the saved kinematic state is that of time 0
NewBody(name) == [name |-> name, pos |-> BodyPosAt(name, 0),
                  orient |-> BodyOrientAt(name, 0), rotvel |-> BodyRotvelAt(name, 0)]

\* Body::transform(t): compute and save position, orientation and rotation rate
BodyTransform(B, t) == [B EXCEPT !.pos = BodyPosAt(B.name, t),
                                 !.orient = BodyOrientAt(B.name, t),
                                 !.rotvel = BodyRotvelAt(B.name, t)]

\* ------------------------------------------------------------ ElementBase
ElemTypes == {"active", "reactive", "inert"}

MoveTypes == {"lagrangian", "bodybound", "fixed"}


\* negation of a fixed-point number
FNeg(a) == IF ~IsNum(a) THEN a ELSE 0 - a

RECURSIVE SeqSum(_)
SeqSum(v) == IF Len(v) = 0 THEN 0 ELSE v[1] + SeqSum(Tail(v))

\* the pairs (x,y) packed in a flat array, dimension d (0 or 1), stride nper
Unpack(flat, nper, d, cnt) == [i \in 1..cnt |-> flat[nper * (i - 1) + d + 1]]

\* ElementBase::ElementBase followed by the member initialisers of Surfaces::Surfaces;
\* istart, utc and tc have no initialiser
NewSurfaces(e, m, bp) ==
    [alive |-> TRUE, E |-> e, M |-> m, hasB |-> bp, n |-> 0,
     x |-> << <<>>, <<>> >>, s |-> None, u |-> << <<>>, <<>> >>, ux |-> None,
     np |-> 0, idx |-> <<>>, area |-> <<>>,
     b |-> << << <<>>, <<>> >>, << <<>>, <<>> >> >>,
     pu |-> << <<>>, <<>> >>, ps |-> None, bc |-> <<None, None>>, rs |-> <<None, None>>,
     istart |-> Indet, vol |-> 0 - Unit, utc |-> <<Indet, Indet>>, tc |-> <<Indet, Indet>>,
     solved_omega |-> 0, omega_error |-> 0, this_omega |-> 0, reabsorbed_gamma |-> 0]

\* assert(...) failing: the process aborts
Abort(c) == [c EXCEPT !.alive = FALSE]

\* one panel's tangent, normal and length from the two end nodes
PanelBasis(c, i, g) ==
    LET id0  == c.idx[2 * i + 1]
        id1  == c.idx[2 * i + 2]
        dx   == At(c.x[1], id1, g) - At(c.x[1], id0, g)
        dy   == At(c.x[2], id1, g) - At(c.x[2], id0, g)
        base == FHypot(dx, dy)
        inv  == FDiv(Unit, base)
        x1   == << FMul(dx, inv), FMul(dy, inv) >>
    IN  [area |-> base, tang |-> x1, norm |-> << FNeg(x1[2]), x1[1] >>]

\* Surfaces::compute_bases(nnew); g is what a read of x past its end yields
compute_bases(c, nnew, g) ==
    IF 2 * nnew # Len(c.idx) THEN Abort(c)
    ELSE LET pb == [i \in 1..nnew |-> PanelBasis(c, i - 1, g)]
         IN  [c EXCEPT !.area = [i \in 1..nnew |-> pb[i].area],
                       !.b = << << [i \in 1..nnew |-> pb[i].tang[1]],
                                   [i \in 1..nnew |-> pb[i].tang[2]] >>,
                                << [i \in 1..nnew |-> pb[i].norm[1]],
                                   [i \in 1..nnew |-> pb[i].norm[2]] >> >>]

\* one panel's signed triangle area (Heron's formula on the triangle from the
\* origin, which in exact arithmetic is half the absolute cross product) and
\* its area-weighted centre
PanelTriangle(c, i, g) ==
    LET j      == c.idx[2 * i + 1]
        jp1    == c.idx[2 * i + 2]
        uxs    == Val(c.ux)
        xj     == At(uxs[1], j, g)
        yj     == At(uxs[2], j, g)
        xp     == At(uxs[1], jp1, g)
        yp     == At(uxs[2], jp1, g)
        xc     == FDiv(xj + xp, 3 * Unit)
        yc     == FDiv(yj + yp, 3 * Unit)
        panelx == xp - xj
        panely == yp - yj
        heron  == Abs(FMul(xj, yp) - FMul(yj, xp)) \div 2
        area   == IF FMul(yj, panelx) - FMul(xj, panely) < 0 THEN 0 - heron ELSE heron
    IN  [a |-> area, xa |-> FMul(xc, area), ya |-> FMul(yc, area)]

\* Surfaces::set_geom_center
set_geom_center(c, g) ==
    IF ~c.hasB \/ ~Has(c.ux) THEN Abort(c)
    ELSE LET tri  == [i \in 1..c.np |-> PanelTriangle(c, i - 1, g)]
             asum == SeqSum([i \in 1..c.np |-> tri[i].a])
             xsum == SeqSum([i \in 1..c.np |-> tri[i].xa])
             ysum == SeqSum([i \in 1..c.np |-> tri[i].ya])
         IN  [c EXCEPT !.vol = asum, !.utc = << FDiv(xsum, asum), FDiv(ysum, asum) >>]

\* Surfaces::Surfaces(_x, _idx, _val, _e, _m, _bp)
Surfaces(xin, idxin, valin, e, m, bp) ==
    LET c0     == NewSurfaces(e, m, bp)
        nsurfs == Len(idxin) \div 2
        nnodes == Len(xin) \div 2
    IN  IF Len(idxin) % 2 # 0 THEN Abort(c0)
        ELSE IF nsurfs = 0
        THEN [c0 EXCEPT !.ux = IF bp THEN Some(c0.x) ELSE None,
                        !.ps = IF e # "inert" THEN Some(<<>>) ELSE None]
        ELSE IF Len(valin) % nsurfs # 0 \/ Len(xin) % 2 # 0 THEN Abort(c0)
        ELSE LET xs == << Unpack(xin, 2, 0, nnodes), Unpack(xin, 2, 1, nnodes) >>
                 c1 == [c0 EXCEPT !.x = xs, !.ux = IF bp THEN Some(xs) ELSE None,
                                  !.idx = idxin]
             IN  IF \E i \in 1..Len(idxin) : idxin[i] >= nnodes THEN Abort(c1)
                 ELSE LET c2 == compute_bases(c1, nsurfs, 0)
                          c3 == [c2 EXCEPT
                                   !.ps = CASE e = "active"   -> Some(valin)
                                            [] e = "reactive" -> Some(Zeros(Len(valin)))
                                            [] OTHER          -> None,
                                   !.bc = IF e = "reactive" THEN <<Some(valin), None>>
                                                            ELSE c2.bc,
                                   !.u = << Zeros(nnodes), Zeros(nnodes) >>,
                                   !.pu = << Zeros(nsurfs), Zeros(nsurfs) >>,
                                   !.n = nnodes, !.np = nsurfs]
                      IN  IF m = "bodybound" THEN set_geom_center(c3, 0) ELSE c3

\* ElementBase::transform(_time): the new collection and the Body it updated
ElementBase_transform(c, B, t, g) ==
    IF c.hasB /\ c.M = "bodybound"
    THEN LET B1  == BodyTransform(B, t)
             st  == SinDeg(B1.orient)
             ct  == CosDeg(B1.orient)
             uxs == Val(c.ux)
         IN  [c |-> [c EXCEPT !.x = << [i \in 1..c.n |->
                                          B1.pos[1] + FMul(At(uxs[1], i - 1, g), ct)
                                                    - FMul(At(uxs[2], i - 1, g), st)],
                                       [i \in 1..c.n |->
                                          B1.pos[2] + FMul(At(uxs[1], i - 1, g), st)
                                                    + FMul(At(uxs[2], i - 1, g), ct)] >>],
              B |-> B1]
    ELSE [c |-> c, B |-> B]

\* Surfaces::transform(_time)
Surfaces_transform(c, B, t, g) ==
    LET r  == ElementBase_transform(c, B, t, g)
        c1 == compute_bases(r.c, r.c.np, g)
        st == SinRad(r.B.orient)
        ct == CosRad(r.B.orient)
    IN  IF ~c1.alive THEN [c |-> c1, B |-> r.B]
        ELSE IF c.hasB /\ c.M = "bodybound"
        THEN [c |-> [c1 EXCEPT !.tc =
                       << FAdd(r.B.pos[1],
                               FSub(FMul(c1.utc[1], ct), FMul(c1.utc[2], st))),
                          FAdd(r.B.pos[2],
                               FAdd(FMul(c1.utc[1], st), FMul(c1.utc[2], ct))) >>],
              B |-> r.B]
        ELSE [c |-> [c1 EXCEPT !.tc = c1.utc], B |-> r.B]

\* move with the Body placed at _time instead of _time + _dt: the slip C9 excludes
ElementBase_move_at_start(c, B, t, dt, g) ==
    IF c.M = "lagrangian"
    THEN [c |-> [c EXCEPT !.x = [d \in 1..2 |->
                                   [i \in 1..Len(c.x[d]) |->
                                      IF i <= c.n THEN c.x[d][i] + dt * At(c.u[d], i - 1, g)
                                                  ELSE c.x[d][i]]]],
          B |-> B]
    ELSE IF c.hasB /\ c.M = "bodybound"
    THEN ElementBase_transform(c, B, t, g)
    ELSE [c |-> c, B |-> B]

\* move advancing a lagrangian collection by u whatever _dt is: the slip C10 excludes
ElementBase_move_ignores_dt(c, B, t, dt, g) ==
    IF c.M = "lagrangian"
    THEN [c |-> [c EXCEPT !.x = [d \in 1..2 |->
                                   [i \in 1..Len(c.x[d]) |->
                                      IF i <= c.n THEN c.x[d][i] + At(c.u[d], i - 1, g)
                                                  ELSE c.x[d][i]]]],
          B |-> B]
    ELSE IF c.hasB /\ c.M = "bodybound"
    THEN ElementBase_transform(c, B, t + dt, g)
    ELSE [c |-> c, B |-> B]

\* ElementBase::move(_time, _dt)
ElementBase_move(c, B, t, dt, g) ==
    IF c.M = "lagrangian"
    THEN [c |-> [c EXCEPT !.x = [d \in 1..2 |->
                                   [i \in 1..Len(c.x[d]) |->
                                      IF i <= c.n THEN c.x[d][i] + dt * At(c.u[d], i - 1, g)
                                                  ELSE c.x[d][i]]]],
          B |-> B]
    ELSE IF c.hasB /\ c.M = "bodybound"
    THEN ElementBase_transform(c, B, t + dt, g)
    ELSE [c |-> c, B |-> B]

\* Surfaces::is_augmented
is_augmented(c, B) ==
    LET a1 == IF c.hasB
              THEN (IF B.name = "ground" THEN (IF c.vol < 0 THEN FALSE ELSE TRUE) ELSE TRUE)
              ELSE FALSE
    IN  IF c.E # "reactive" THEN FALSE ELSE a1

\* Surfaces::num_unknowns_per_panel
num_unknowns_per_panel(c) ==
    (IF Has(c.bc[1]) THEN 1 ELSE 0) + (IF Has(c.bc[2]) THEN 1 ELSE 0)

\* get_num_rows without the row of the rotation rate: the slip C7 excludes
get_num_rows_without_omega(c, B) == c.np * num_unknowns_per_panel(c)

\* Surfaces::get_num_rows
get_num_rows(c, B) == c.np * num_unknowns_per_panel(c) + (IF is_augmented(c, B) THEN 1 ELSE 0)

\* Surfaces::get_first_row
get_first_row(c) == c.istart

\* Surfaces::get_next_row
get_next_row(c, B) == c.istart + get_num_rows(c, B)

\* Surfaces::set_first_row(_i)
set_first_row(c, i) == [c EXCEPT !.istart = i]

\* set_str without the pop_back: the slip C6 excludes
Surfaces_set_str_keeps_last(c, B, in, g) ==
    IF ~Has(c.ps) THEN Abort(c)
    ELSE LET aug  == is_augmented(c, B)
             c1   == IF aug
                     THEN LET so == IF Len(in) = 0 THEN g ELSE in[Len(in)]
                          IN  [c EXCEPT !.solved_omega = so, !.omega_error = so - B.rotvel]
                     ELSE c
         IN  IF (aug /\ Len(in) = 0) \/ Len(in) # Len(Val(c.ps)) THEN Abort(c1)
             ELSE [c1 EXCEPT !.ps = Some(in)]

\* Surfaces::set_str(ioffset, icnt, _in); on an augmented surface back() and
\* pop_back() of an empty _in leave a size that fails the length assertion
Surfaces_set_str(c, B, in, g) ==
    IF ~Has(c.ps) THEN Abort(c)
    ELSE LET aug  == is_augmented(c, B)
             c1   == IF aug
                     THEN LET so == IF Len(in) = 0 THEN g ELSE in[Len(in)]
                          IN  [c EXCEPT !.solved_omega = so, !.omega_error = so - B.rotvel]
                     ELSE c
             rest == IF aug /\ Len(in) > 0 THEN SubSeq(in, 1, Len(in) - 1) ELSE in
         IN  IF (aug /\ Len(in) = 0) \/ Len(rest) # Len(Val(c.ps)) THEN Abort(c1)
             ELSE [c1 EXCEPT !.ps = Some(rest)]

\* Surfaces::add_new(_x, _idx, _val); g is what a read past the end of x or ux
\* yields, crash whether dereferencing an empty optional bc[0] ends the process
Surfaces_add_new(c, xin, idxin, valin, g, crash) ==
    LET nnold  == c.n
        neold  == c.np
        nsurfs == Len(idxin) \div 2
        nnodes == Len(xin) \div 2
    IN  IF Len(idxin) % 2 # 0 THEN Abort(c)
        ELSE IF nsurfs = 0 THEN c
        ELSE IF Len(valin) % nsurfs # 0 \/ Len(xin) % 2 # 0 THEN Abort(c)
        ELSE LET xs == [d \in 1..2 |->
                          [i \in 1..(nnold + nnodes) |->
                             IF i <= nnold THEN At(c.x[d], i - 1, 0)
                                           ELSE xin[2 * (i - nnold - 1) + d]]]
                 uxs == IF c.hasB
                        THEN Some([d \in 1..2 |->
                                     [i \in 1..(nnold + nnodes) |->
                                        IF i <= nnold THEN At(Val(c.ux)[d], i - 1, 0)
                                                      ELSE xs[d][i]]])
                        ELSE c.ux
                 c1 == [c EXCEPT !.x = xs, !.ux = uxs,
                                 !.idx = [i \in 1..(2 * neold + Len(idxin)) |->
                                            IF i <= 2 * neold THEN At(c.idx, i - 1, 0)
                                                              ELSE nnold + idxin[i - 2 * neold]]]
             IN  IF \E i \in 1..Len(idxin) : idxin[i] >= nnold + nnodes THEN Abort(c1)
                 ELSE LET c2 == compute_bases(c1, neold + nsurfs, g)
                          bcmissing == c.E = "reactive" /\ ~Has(c.bc[1])
                          c3 == [c2 EXCEPT
                                   !.ps = IF c.E = "inert" THEN c2.ps
                                          ELSE Some(Resize(Val(c2.ps), neold + nsurfs)),
                                   !.bc = IF c.E = "reactive" /\ Has(c.bc[1])
                                          THEN << Some(Val(c2.bc[1]) \o valin), c2.bc[2] >>
                                          ELSE c2.bc,
                                   !.u = << Resize(c2.u[1], nnold + nnodes),
                                            Resize(c2.u[2], nnold + nnodes) >>,
                                   !.pu = << Resize(c2.pu[1], neold + nsurfs),
                                             Resize(c2.pu[2], neold + nsurfs) >>,
                                   !.n = nnold + nnodes, !.np = neold + nsurfs]
                      IN  IF ~c2.alive \/ (bcmissing /\ crash) THEN Abort(c2)
                          ELSE IF c.M = "bodybound" THEN set_geom_center(c3, g) ELSE c3

\* ElementBase::resize(_nnew)
ElementBase_resize(c, nnew) ==
    IF nnew = c.n THEN c
    ELSE [c EXCEPT !.x = << Resize(c.x[1], nnew), Resize(c.x[2], nnew) >>,
                   !.s = IF Has(c.s) THEN Some(Resize(Val(c.s), nnew)) ELSE c.s,
                   !.u = << Resize(c.u[1], nnew), Resize(c.u[2], nnew) >>,
                   !.n = nnew]

\* ElementBase::set_str(ioffset, icnt, _in)
ElementBase_set_str(c, in) ==
    IF ~Has(c.s) THEN Abort(c) ELSE [c EXCEPT !.s = Some(in)]

\* add_new reading 4 numbers per element of an inert collection too: the slip
\* C8 excludes
ElementBase_add_new_stride4(c, in) ==
    LET nper == 4
        nnew == Len(in) \div nper
    IN  IF Len(in) = 0 THEN c
        ELSE IF Len(in) % nper # 0 THEN Abort(c)
        ELSE [c EXCEPT !.x = [d \in 1..2 |->
                                [i \in 1..(c.n + nnew) |->
                                   IF i <= c.n THEN At(c.x[d], i - 1, 0)
                                               ELSE in[nper * (i - c.n - 1) + d]]],
                       !.s = IF Has(c.s)
                             THEN Some([i \in 1..(c.n + nnew) |->
                                          IF i <= c.n THEN At(Val(c.s), i - 1, 0)
                                                      ELSE in[nper * (i - c.n - 1) + 3]])
                             ELSE c.s,
                       !.u = << Resize(c.u[1], c.n + nnew), Resize(c.u[2], c.n + nnew) >>,
                       !.n = c.n + nnew]

\* ElementBase::add_new(_in)
ElementBase_add_new(c, in) ==
    LET nper == IF c.E = "inert" THEN 2 ELSE 4
        nnew == Len(in) \div nper
    IN  IF Len(in) = 0 THEN c
        ELSE IF Len(in) % nper # 0 THEN Abort(c)
        ELSE [c EXCEPT !.x = [d \in 1..2 |->
                                [i \in 1..(c.n + nnew) |->
                                   IF i <= c.n THEN At(c.x[d], i - 1, 0)
                                               ELSE in[nper * (i - c.n - 1) + d]]],
                       !.s = IF Has(c.s)
                             THEN Some([i \in 1..(c.n + nnew) |->
                                          IF i <= c.n THEN At(Val(c.s), i - 1, 0)
                                                      ELSE in[nper * (i - c.n - 1) + 3]])
                             ELSE c.s,
                       !.u = << Resize(c.u[1], c.n + nnew), Resize(c.u[2], c.n + nnew) >>,
                       !.n = c.n + nnew]

\* Surfaces::zero_vels
Surfaces_zero_vels(c) ==
    [c EXCEPT !.pu = << Zeros(Len(c.pu[1])), Zeros(Len(c.pu[2])) >>,
              !.u = [d \in 1..2 |-> [i \in 1..Len(c.u[d]) |-> IF i <= c.n THEN 0 ELSE c.u[d][i]]]]

\* 0.5/M_PI
InvTwoPi == 159

\* ElementBase::finalize_vels(_fs)
ElementBase_finalize_vels(c, fs) ==
    [c EXCEPT !.u = [d \in 1..2 |->
                       [i \in 1..Len(c.u[d]) |->
                          IF i <= c.n THEN fs[d] + FMul(c.u[d][i], InvTwoPi) ELSE c.u[d][i]]]]

\* Surfaces::finalize_vels(_fs)
Surfaces_finalize_vels(c, fs) ==
    ElementBase_finalize_vels(
      [c EXCEPT !.pu = [d \in 1..2 |->
                          [i \in 1..Len(c.pu[d]) |->
                             IF i <= c.np THEN fs[d] + FMul(c.pu[d][i], InvTwoPi)
                                          ELSE c.pu[d][i]]]], fs)

\* a variant with the source term u*tan_y + v*tan_x
RotStrength_source_sign(c, i, factor, g) ==
    LET j      == c.idx[2 * i + 1]
        jp1    == c.idx[2 * i + 2]
        uxs    == Val(c.ux)
        dx     == FSub((At(uxs[1], j, g) + At(uxs[1], jp1, g)) \div 2, c.utc[1])
        dy     == FSub((At(uxs[2], j, g) + At(uxs[2], jp1, g)) \div 2, c.utc[2])
        ui     == FNeg(FMul(factor, dy))
        vi     == FMul(factor, dx)
        oopanell == FDiv(Unit, c.area[i + 1])
        panelx == FMul(At(uxs[1], jp1, g) - At(uxs[1], j, g), oopanell)
        panely == FMul(At(uxs[2], jp1, g) - At(uxs[2], j, g), oopanell)
    IN  [vort |-> FNeg(FAdd(FMul(ui, panelx), FMul(vi, panely))),
         src  |-> FAdd(FMul(ui, panely), FMul(vi, panelx))]

\* what one panel adds in add_rot_strengths_base: the vortex and the source
\* strength of the rotation _factor about utc, from the untransformed nodes
RotStrength(c, i, factor, g) ==
    LET j      == c.idx[2 * i + 1]
        jp1    == c.idx[2 * i + 2]
        uxs    == Val(c.ux)
        dx     == FSub((At(uxs[1], j, g) + At(uxs[1], jp1, g)) \div 2, c.utc[1])
        dy     == FSub((At(uxs[2], j, g) + At(uxs[2], jp1, g)) \div 2, c.utc[2])
        ui     == FNeg(FMul(factor, dy))
        vi     == FMul(factor, dx)
        oopanell == FDiv(Unit, c.area[i + 1])
        panelx == FMul(At(uxs[1], jp1, g) - At(uxs[1], j, g), oopanell)
        panely == FMul(At(uxs[2], jp1, g) - At(uxs[2], j, g), oopanell)
    IN  [vort |-> FNeg(FAdd(FMul(ui, panelx), FMul(vi, panely))),
         src  |-> FNeg(FSub(FMul(ui, panely), FMul(vi, panelx)))]

\* add_rot_strengths_base without the test for the ground Body
add_rot_strengths_base_on_ground(c, B, factor, g) ==
    IF ~c.hasB \/ ~Has(c.ps) THEN c
    ELSE IF ~(c.vol > 0) THEN Abort(c)
    ELSE LET rs0 == IF Has(c.rs[1]) THEN Resize(Val(c.rs[1]), c.np) ELSE Zeros(c.np)
             rs1 == IF Has(c.rs[2]) THEN Resize(Val(c.rs[2]), c.np) ELSE Zeros(c.np)
             c1  == [c EXCEPT !.rs = << Some(rs0), Some(rs1) >>]
             add == [i \in 1..c.np |-> RotStrength(c, i - 1, factor, g)]
         IN  IF Len(Val(c.ps)) # c.np THEN Abort(c1)
             ELSE [c1 EXCEPT
                     !.ps = Some([i \in 1..c.np |-> FAdd(Val(c.ps)[i], add[i].vort)]),
                     !.rs = << Some([i \in 1..c.np |-> FAdd(rs0[i], add[i].vort)]),
                               Some([i \in 1..c.np |-> FAdd(rs1[i], add[i].src)]) >>]

\* Surfaces::add_rot_strengths_base(_factor)
add_rot_strengths_base(c, B, factor, g) ==
    IF ~c.hasB \/ ~Has(c.ps) \/ B.name = "ground" THEN c
    ELSE IF ~(c.vol > 0) THEN Abort(c)
    ELSE LET rs0 == IF Has(c.rs[1]) THEN Resize(Val(c.rs[1]), c.np) ELSE Zeros(c.np)
             rs1 == IF Has(c.rs[2]) THEN Resize(Val(c.rs[2]), c.np) ELSE Zeros(c.np)
             c1  == [c EXCEPT !.rs = << Some(rs0), Some(rs1) >>]
             add == [i \in 1..c.np |-> RotStrength(c, i - 1, factor, g)]
         IN  IF Len(Val(c.ps)) # c.np THEN Abort(c1)
             ELSE [c1 EXCEPT
                     !.ps = Some([i \in 1..c.np |-> FAdd(Val(c.ps)[i], add[i].vort)]),
                     !.rs = << Some([i \in 1..c.np |-> FAdd(rs0[i], add[i].vort)]),
                               Some([i \in 1..c.np |-> FAdd(rs1[i], add[i].src)]) >>]

\* Surfaces::add_rot_strengths(_factor): a multiple of the Body's saved rotation rate
add_rot_strengths(c, B, factor, g) ==
    IF ~c.hasB THEN c
    ELSE add_rot_strengths_base(c, B, FMul(factor, B.rotvel), g)

\* Surfaces::add_unit_rot_strengths
add_unit_rot_strengths(c, B, g) == add_rot_strengths_base(c, B, Unit, g)

\* Surfaces::add_solved_rot_strengths(_factor)
add_solved_rot_strengths(c, B, factor, g) ==
    IF is_augmented(c, B)
    THEN add_rot_strengths_base(c, B, FMul(factor, c.solved_omega), g)
    ELSE add_rot_strengths(c, B, factor, g)

\* a variant that leaves the boundary condition out of the strength
PanelParticle_without_bc(c, i, offset, vdelta, g, gs) ==
    LET id0 == c.idx[2 * i + 1]
        id1 == c.idx[2 * i + 2]
        px  == (At(c.x[1], id1, g) + At(c.x[1], id0, g)) \div 2
        py  == (At(c.x[2], id1, g) + At(c.x[2], id0, g)) \div 2
        str == IF Has(c.ps) THEN At(Val(c.ps), i, gs) ELSE gs
    IN  << FAdd(px, FMul(offset, c.b[2][1][i + 1])),
           FAdd(py, FMul(offset, c.b[2][2][i + 1])),
           FMul(str, c.area[i + 1]),
           vdelta >>

\* one panel's particle in represent_as_particles; gs is what reading an absent
\* or too short ps or bc[0] yields
PanelParticle(c, i, offset, vdelta, g, gs) ==
    LET id0 == c.idx[2 * i + 1]
        id1 == c.idx[2 * i + 2]
        px  == (At(c.x[1], id1, g) + At(c.x[1], id0, g)) \div 2
        py  == (At(c.x[2], id1, g) + At(c.x[2], id0, g)) \div 2
        str == IF Has(c.ps) THEN At(Val(c.ps), i, gs) ELSE gs
        bcv == IF c.E # "reactive" THEN 0
               ELSE IF Has(c.bc[1]) THEN At(Val(c.bc[1]), i, gs) ELSE gs
    IN  << FAdd(px, FMul(offset, c.b[2][1][i + 1])),
           FAdd(py, FMul(offset, c.b[2][2][i + 1])),
           FMul(FAdd(str, bcv), c.area[i + 1]),
           vdelta >>

\* Surfaces::represent_as_particles(_offset, _vdelta): the packed (x, y, s, r)
represent_as_particles(c, offset, vdelta, g, gs) ==
    [k \in 1..(4 * c.np) |->
       PanelParticle(c, (k - 1) \div 4, offset, vdelta, g, gs)[((k - 1) % 4) + 1]]

\* ElementBase::get_n
get_n(c) == c.n

\* the largest magnitude among the first k entries of v, 0 when there is none
RECURSIVE MaxAbs(_, _)
MaxAbs(v, k) ==
    IF k = 0 THEN 0
    ELSE LET m == MaxAbs(v, k - 1)
         IN  IF Abs(v[k]) > m THEN Abs(v[k]) ELSE m

\* ElementBase::get_max_str
get_max_str(c) == IF Has(c.s) THEN MaxAbs(Val(c.s), Len(Val(c.s))) ELSE Unit

\* ElementBase::get_total_circ(_time)
get_total_circ(c) == IF Has(c.s) THEN SeqSum(Val(c.s)) ELSE 0

\* Points::Points: n elements with positions, velocities and, unless inert,
\* strengths; untransformed positions are kept when a Body is given
NewPoints(e, m, bp, n0) ==
    LET xs == << [i \in 1..n0 |-> i * Unit], [i \in 1..n0 |-> 0] >>
    IN  [NewSurfaces(e, m, bp) EXCEPT
           !.n = n0, !.x = xs,
           !.s = IF e # "inert" THEN Some([i \in 1..n0 |-> i * Unit]) ELSE None,
           !.u = << Zeros(n0), Zeros(n0) >>,
           !.ux = IF bp THEN Some(xs) ELSE None]

\* ---------------------------------------------------------------- Hybrid
\* the largest number of passes of the correction loop of Hybrid::step
maxiter == 20

\* the relative error below which the correction loop stops
maxerror == Unit \div 100

\* an infinite result of a floating-point division
Inf == Unit * Unit * Unit

\* x / y in double precision: x / 0 is infinite for x > 0 and NaN for x = 0
DDiv(x, y) == IF y = 0 THEN (IF x = 0 THEN NaN ELSE Inf) ELSE (x * Unit) \div y

\* the locals of Hybrid::step that outlive one pass of part C, before it has
\* run; lagvort and circ are used up within the pass that computes them
NoFrame ==
    [pc |-> "idle", vol |-> 0, eulvort |-> <<>>, area |-> <<>>,
     totalcircmag |-> 0, thiserror |-> 0, iter |-> 0]

\* circ: (eulvort - lagvort) scaled by the masked cell area, the thisn entries
\* the sums read
Circ(eulvort, lagvort, area) ==
    [i \in 1..Len(lagvort) |-> FMul(eulvort[i] - lagvort[i], area[i])]

\* the sum of |v[i]|
RECURSIVE SumAbs(_, _)
SumAbs(v, k) == IF k = 0 THEN 0 ELSE SumAbs(v, k - 1) + Abs(v[k])

\* totalcircmag: the sum of |eulvort[i] * area[i]|
TotalCircMag(eulvort, area) ==
    SumAbs([i \in 1..Len(area) |-> FMul(eulvort[i], area[i])], Len(area))

\* thiserror: the sum of |circ[i]| over totalcircmag
ThisError(eulvort, lagvort, area) ==
    DDiv(SumAbs(Circ(eulvort, lagvort, area), Len(lagvort)), TotalCircMag(eulvort, area))

\* Hybrid::Hybrid(); pushed is the element order its solver was last given
NewHybrid ==
    [active |-> FALSE, initialized |-> FALSE, alive |-> TRUE,
     elementOrder |-> 1, timeOrder |-> 1, numSubsteps |-> 100, pushed |-> None]

\* the vorticity collections handed to step: first tells what _vort[0] is
\* ("none" for an empty list), adds and merges count the add_new calls on it
\* and the merge operations over the list
NewVort(first) == [first |-> first, adds |-> 0, merges |-> 0]

\* std::get<Points<S>>(_vort[0]): the Points collection; an exception that
\* leaves step when the first entry is of another kind; with an empty list the
\* read is outside the vector and may end the program or yield something that
\* is then used as the Points collection
GetFirstVort(v) ==
    CASE v.first = "points" -> {"points"}
      [] v.first = "other"  -> {"bad_variant_access"}
      [] OTHER              -> {"crash", "points"}

\* the hybrid section of a configuration document: every key may be missing
JsonValue(j, key, default) == IF Has(j[key]) THEN Val(j[key]) ELSE default

\* Hybrid::from_json(simj); simj.hybrid is None when the document has no
\* "hybrid" object
Hybrid_from_json(h, simj) ==
    IF ~Has(simj.hybrid) THEN h
    ELSE LET j == Val(simj.hybrid)
         IN  [h EXCEPT !.active = JsonValue(j, "enabled", FALSE),
                       !.elementOrder = JsonValue(j, "elementOrder", 1),
                       !.timeOrder = JsonValue(j, "timeOrder", 1),
                       !.numSubsteps = JsonValue(j, "numSubsteps", 100)]

\* an Euler volume the solver has not yet given its points
NewVolume == [open |-> None, soln |-> None]

\* s repeated n times
RECURSIVE Repeat(_, _)
Repeat(s, n) == IF n = 0 THEN <<>> ELSE s \o Repeat(s, n - 1)

\* an init that takes any number of volumes
Hybrid_init_any_volumes(h, eu, nopen, nsoln) ==
    [h |-> [h EXCEPT !.initialized = TRUE, !.pushed = Some(h.elementOrder)],
     eu |-> [k \in 1..Len(eu) |-> [open |-> Some(nopen), soln |-> Some(nsoln)]],
     calls |-> << "solver.set_elemorder_d" >> \o
               Repeat(<< "euler.move", "solver.init_d",
                         "solver.getopenpts_d", "euler.set_open_pts",
                         "solver.getsolnpts_d", "euler.set_soln_pts" >>, Len(eu))]

\* Hybrid::init(_euler): the Hybrid, the volumes and the calls made; nopen and
\* nsoln are the numbers of open-boundary and solution points the solver returns
Hybrid_init(h, eu, nopen, nsoln) ==
    IF Len(eu) # 1 THEN [h |-> [h EXCEPT !.alive = FALSE], eu |-> eu, calls |-> <<>>]
    ELSE [h |-> [h EXCEPT !.initialized = TRUE, !.pushed = Some(h.elementOrder)],
          eu |-> [k \in 1..Len(eu) |-> [open |-> Some(nopen), soln |-> Some(nsoln)]],
          calls |-> << "solver.set_elemorder_d" >> \o
                    Repeat(<< "euler.move", "solver.init_d",
                              "solver.getopenpts_d", "euler.set_open_pts",
                              "solver.getsolnpts_d", "euler.set_soln_pts" >>, Len(eu))]

\* an entry that runs init whenever the Hybrid is active
Hybrid_enter_always_init(h, eu, nopen, nsoln) ==
    IF ~h.active THEN [h |-> h, eu |-> eu, calls |-> <<>>, go |-> FALSE]
    ELSE LET r == Hybrid_init(h, eu, nopen, nsoln)
         IN  [h |-> r.h, eu |-> r.eu, calls |-> r.calls, go |-> r.h.alive]

\* the two lines first_step and step begin with: return when not active,
\* init when not initialized; go tells whether the caller carries on
Hybrid_enter(h, eu, nopen, nsoln) ==
    IF ~h.active THEN [h |-> h, eu |-> eu, calls |-> <<>>, go |-> FALSE]
    ELSE IF ~h.initialized
    THEN LET r == Hybrid_init(h, eu, nopen, nsoln)
         IN  [h |-> r.h, eu |-> r.eu, calls |-> r.calls, go |-> r.h.alive]
    ELSE [h |-> h, eu |-> eu, calls |-> <<>>, go |-> TRUE]

\* the calls of first_step after its first two lines
FirstStepCalls(nvol) ==
    Repeat(<< "euler.move", "euler.get_bc_nodes" >>, nvol) \o << "conv.find_vels" >> \o
    Repeat(<< "solver.setopenvels_d" >>, nvol) \o
    Repeat(<< "euler.move", "euler.get_vol_nodes" >>, nvol) \o << "conv.find_vels" >> \o
    Repeat(<< "solver.setsolnvort_d" >>, nvol)

\* a step that calls the solver before it has sent the open-boundary velocities
StepCalls_solve_first(nvol) ==
    << "bem.solve_bem" >> \o
    Repeat(<< "euler.move", "euler.get_bc_nodes" >>, nvol) \o << "conv.find_vels" >> \o
    << "solver.solveto_d" >> \o Repeat(<< "solver.setopenvels_d" >>, nvol)

\* the calls of parts A and B of step
StepCalls(nvol) ==
    << "bem.solve_bem" >> \o
    Repeat(<< "euler.move", "euler.get_bc_nodes" >>, nvol) \o << "conv.find_vels" >> \o
    Repeat(<< "solver.setopenvels_d" >>, nvol) \o << "solver.solveto_d" >>

\* how many times name occurs in the sequence of calls
Count(cs, name) == Cardinality({k \in 1..Len(cs) : cs[k] = name})

\* a step that takes the solver's vorticities whatever their number
EulvortSizeOk_unchecked(eulvort, thisn) == TRUE

\* the assertion of step on the vorticities the solver returned
EulvortSizeOk(eulvort, thisn) == Len(eulvort) = thisn

\* a loop that goes on for as long as the error is large
LoopContinues_uncapped(thiserror, iter) == thiserror > maxerror

\* the condition of the correction loop
LoopContinues(thiserror, iter) == thiserror > maxerror /\ iter < maxiter

\* ------------------------------------------------------- flow features
FeatureTypes ==
    { "single particle", "vortex blob", "asymmetric blob",
      "uniform block", "block of random", "particle emitter" }

\* a feature as its constructor leaves it, before from_json fills it in
NewFeature(type) ==
    [type |-> type, enabled |-> TRUE, x |-> 0, y |-> 0, str |-> Unit,
     rad |-> IF type = "asymmetric blob" THEN Unit \div 5 ELSE Unit \div 10,
     minrad |-> Unit \div 10, softness |-> Unit \div 10, theta |-> 0,
     xsize |-> Unit, ysize |-> Unit,
     minstr |-> 0 - Unit \div 2, maxstr |-> Unit \div 2, num |-> 100]

is_enabled(f) == f.enabled

\* M_PI
Pi == 3142

\* std::sin of x radians for x within a quarter turn of 0: the series up to x^7
SinSeries(x) ==
    LET x2 == (x * x) \div Unit
        x3 == (x2 * x) \div Unit
        x5 == (x3 * x2) \div Unit
        x7 == (x5 * x2) \div Unit
    IN  x - x3 \div 6 + x5 \div 120 - x7 \div 5040

\* std::sqrt((float)k) of a whole number k
SqrtOfInt(k) == SqrtSearch(k * Unit * Unit, 0, IF k < 45 THEN (k + 1) * Unit ELSE 46 * Unit)

\* the cells (i, j) of for (i=-irad..irad) for (j=-jrad..jrad), in loop order
GridCells(irad, jrad) ==
    LET w == 2 * jrad + 1
    IN  [k \in 1..((2 * irad + 1) * w) |-> << ((k - 1) \div w) - irad, ((k - 1) % w) - jrad >>]

\* a vector of particles, four floats each, packed as the code returns it
PackParticles(ps) == [k \in 1..(4 * Len(ps)) |-> ps[((k - 1) \div 4) + 1][((k - 1) % 4) + 1]]

\* the strength of a blob particle at distance dr from the centre, before scaling
BlobStrength(dr, rad, softness) ==
    IF dr > rad - softness \div 2
    THEN Unit \div 2 - SinSeries(FDiv(FMul(Pi, dr - rad), softness)) \div 2
    ELSE Unit

\* the last loop of the blobs: every strength times m_str / tot_circ
ScaleStrengths(ps, str) ==
    LET tot_circ == SeqSum([k \in 1..Len(ps) |-> ps[k][3]])
        str_scale == FDiv(str, tot_circ)
    IN  [k \in 1..Len(ps) |-> [ps[k] EXCEPT ![3] = FMul(@, str_scale)]]

\* SingleParticle::init_particles
SingleParticle_init_particles(f, ips) ==
    IF is_enabled(f) THEN << f.x, f.y, f.str, 0 >> ELSE << >>

\* SingleParticle::step_particles
SingleParticle_step_particles(f, ips) == << >>

\* VortexBlob::init_particles
VortexBlob_init_particles(f, ips) ==
    IF ~is_enabled(f) THEN << >>
    ELSE LET irad == 1 + (f.rad + f.softness \div 2) \div ips
             dr(c) == FMul(SqrtOfInt(c[1] * c[1] + c[2] * c[2]), ips)
             inside(c) == dr(c) < f.rad + f.softness \div 2
             cells == SelectSeq(GridCells(irad, irad), inside)
             ps == [k \in 1..Len(cells) |->
                      << f.x + ips * cells[k][1], f.y + ips * cells[k][2],
                         BlobStrength(dr(cells[k]), f.rad, f.softness), 0 >>]
         IN  PackParticles(ScaleStrengths(ps, f.str))

\* VortexBlob::step_particles
VortexBlob_step_particles(f, ips) == << >>

\* AsymmetricBlob::init_particles
AsymmetricBlob_init_particles(f, ips) ==
    IF ~is_enabled(f) THEN << >>
    ELSE LET irad == 1 + (f.rad + f.softness \div 2) \div ips
             jrad == 1 + (f.minrad + f.softness \div 2) \div ips
             st == SinDeg(f.theta)
             ct == CosDeg(f.theta)
             dx(c) == c[1] * ips
             dy(c) == c[2] * ips
             dr(c) == FHypot(dx(c), FDiv(FMul(dy(c), f.rad), f.minrad))
             inside(c) == dr(c) < f.rad + f.softness \div 2
             cells == SelectSeq(GridCells(irad, jrad), inside)
             ps == [k \in 1..Len(cells) |->
                      << f.x + FMul(dx(cells[k]), ct) - FMul(dy(cells[k]), st),
                         f.y + FMul(dx(cells[k]), st) + FMul(dy(cells[k]), ct),
                         BlobStrength(dr(cells[k]), f.rad, f.softness), 0 >>]
         IN  PackParticles(ScaleStrengths(ps, f.str))

\* AsymmetricBlob::step_particles
AsymmetricBlob_step_particles(f, ips) == << >>

\* UniformBlock::init_particles
UniformBlock_init_particles(f, ips) ==
    IF ~is_enabled(f) THEN << >>
    ELSE LET isize == 1 + f.xsize \div ips
             jsize == 1 + f.ysize \div ips
             each_str == f.str \div (isize * jsize)
             at(size, k, cnt) ==
                 FMul(size, FDiv(k * Unit + Unit \div 2, cnt * Unit) - Unit \div 2)
             ps == [k \in 1..(isize * jsize) |->
                      << f.x + at(f.xsize, (k - 1) \div jsize, isize),
                         f.y + at(f.ysize, ((k - 1) % jsize), jsize),
                         each_str, 0 >>]
         IN  PackParticles(ps)

\* UniformBlock::step_particles
UniformBlock_step_particles(f, ips) == << >>

\* what the three random distributions may yield for one particle:
\* zmean_dist twice (in [-1, 1)) and zo_dist once (in [0, 1))
RandomDraws == { << 0 - Unit, 0, 0 >>, << Unit \div 2, 0 - Unit \div 2, Unit \div 2 >> }

\* BlockOfRandom::init_particles; rnd[i] is what the generator yields for particle i
BlockOfRandom_init_particles(f, ips, rnd) ==
    IF ~is_enabled(f) THEN << >>
    ELSE PackParticles([i \in 1..f.num |->
            << f.x + FMul(f.xsize, rnd[i][1]),
               f.y + FMul(f.ysize, rnd[i][2]),
               f.minstr + FMul(f.maxstr - f.minstr, rnd[i][3]), 0 >>])

\* BlockOfRandom::step_particles
BlockOfRandom_step_particles(f, ips) == << >>

\* ParticleEmitter::init_particles
ParticleEmitter_init_particles(f, ips) == << >>

\* an emitter that does not look at its enabled flag
ParticleEmitter_step_particles_always(f, ips) == << f.x, f.y, f.str, 0 >>

\* ParticleEmitter::step_particles
ParticleEmitter_step_particles(f, ips) ==
    IF is_enabled(f) THEN << f.x, f.y, f.str, 0 >> ELSE << >>

\* FlowFeature::init_particles, dispatched on the feature's class
init_particles(f, ips, rnd) ==
    CASE f.type = "single particle" -> SingleParticle_init_particles(f, ips)
      [] f.type = "vortex blob"     -> VortexBlob_init_particles(f, ips)
      [] f.type = "asymmetric blob" -> AsymmetricBlob_init_particles(f, ips)
      [] f.type = "uniform block"   -> UniformBlock_init_particles(f, ips)
      [] f.type = "block of random" -> BlockOfRandom_init_particles(f, ips, rnd)
      [] OTHER                      -> ParticleEmitter_init_particles(f, ips)

\* FlowFeature::step_particles, dispatched on the feature's class
step_particles(f, ips) ==
    CASE f.type = "single particle" -> SingleParticle_step_particles(f, ips)
      [] f.type = "vortex blob"     -> VortexBlob_step_particles(f, ips)
      [] f.type = "asymmetric blob" -> AsymmetricBlob_step_particles(f, ips)
      [] f.type = "uniform block"   -> UniformBlock_step_particles(f, ips)
      [] f.type = "block of random" -> BlockOfRandom_step_particles(f, ips)
      [] OTHER                      -> ParticleEmitter_step_particles(f, ips)

\* a JSON value: its kind, its numbers (one for a number or a boolean, the
\* elements for an array) and its text
JNum(n) == Some([kind |-> "number", v |-> << n >>, s |-> ""])

JArr(a) == Some([kind |-> "array", v |-> a, s |-> ""])

JStr(t) == Some([kind |-> "string", v |-> << >>, s |-> t])

JBool(b) == Some([kind |-> "boolean", v |-> << IF b THEN 1 ELSE 0 >>, s |-> ""])

\* the keys a feature description may carry; a key it lacks maps to None
FlowKeys ==
    { "type", "center", "strength", "radius", "softness", "scale", "rotation",
      "size", "strength range", "num", "enabled" }

\* a feature under from_json: what was assigned so far and how the call goes on
\* ("ok", "threw" for a json exception, "aborted" for a failed assertion or a crash)
Parsing(f) == [f |-> f, status |-> "ok"]

\* j[key] of a const json: a missing key is undefined behaviour (an assertion
\* in a debug build), ub is what the build makes of it and g what is then read
JsonAt(j, key, ub, g) ==
    IF Has(j[key]) THEN [status |-> "ok", val |-> Val(j[key])]
    ELSE IF ub = "abort" THEN [status |-> "aborted", val |-> Val(JNum(0))]
    ELSE [status |-> "ok", val |-> [kind |-> "garbage", v |-> << g, g >>, s |-> ""]]

\* conversion of a json value to float: numbers and booleans convert, others throw
ToFloat(val) == IF val.kind \in {"number", "boolean", "garbage"}
                THEN [status |-> "ok", v |-> val.v[1]]
                ELSE [status |-> "threw", v |-> 0]

\* conversion of a json value to bool: only a boolean converts
ToBool(val) == IF val.kind = "boolean" THEN [status |-> "ok", v |-> val.v[1] = 1]
               ELSE [status |-> "threw", v |-> FALSE]

\* conversion of a json value to std::vector<float>: only an array converts
ToVector(val) == IF val.kind \in {"array", "garbage"} THEN [status |-> "ok", v |-> val.v]
                 ELSE [status |-> "threw", v |-> << >>]

\* m_field = j[key]
ReadFloat(p, j, key, field, ub, g) ==
    IF p.status # "ok" THEN p
    ELSE LET at == JsonAt(j, key, ub, g)
             cv == ToFloat(at.val)
         IN  IF at.status # "ok" THEN [p EXCEPT !.status = at.status]
             ELSE IF cv.status # "ok" THEN [p EXCEPT !.status = cv.status]
             ELSE [p EXCEPT !.f[field] = cv.v]

\* const std::vector<float> c = j[key]; m_first = c[0]; m_second = c[1];
ReadPair(p, j, key, first, second, ub, g) ==
    IF p.status # "ok" THEN p
    ELSE LET at == JsonAt(j, key, ub, g)
             cv == ToVector(at.val)
         IN  IF at.status # "ok" THEN [p EXCEPT !.status = at.status]
             ELSE IF cv.status # "ok" THEN [p EXCEPT !.status = cv.status]
             ELSE [p EXCEPT !.f[first] = At(cv.v, 0, g), !.f[second] = At(cv.v, 1, g)]

\* m_field = j.value(key, default) for a float
ValueFloat(p, j, key, field, default) ==
    IF p.status # "ok" THEN p
    ELSE IF ~Has(j[key]) THEN [p EXCEPT !.f[field] = default]
    ELSE LET cv == ToFloat(Val(j[key]))
         IN  IF cv.status # "ok" THEN [p EXCEPT !.status = cv.status]
             ELSE [p EXCEPT !.f[field] = cv.v]

\* m_enabled = j.value("enabled", true)
ValueEnabled(p, j) ==
    IF p.status # "ok" THEN p
    ELSE IF ~Has(j["enabled"]) THEN [p EXCEPT !.f.enabled = TRUE]
    ELSE LET cv == ToBool(Val(j["enabled"]))
         IN  IF cv.status # "ok" THEN [p EXCEPT !.status = cv.status]
             ELSE [p EXCEPT !.f.enabled = cv.v]

\* SingleParticle::from_json
SingleParticle_from_json(f, j, ub, g) ==
    LET p1 == ReadPair(Parsing(f), j, "center", "x", "y", ub, g)
        p2 == ReadFloat(p1, j, "strength", "str", ub, g)
    IN  ValueEnabled(p2, j)

\* VortexBlob::from_json
VortexBlob_from_json(f, j, ub, g) ==
    LET p1 == ReadPair(Parsing(f), j, "center", "x", "y", ub, g)
        p2 == ReadFloat(p1, j, "radius", "rad", ub, g)
        p3 == ReadFloat(p2, j, "softness", "softness", ub, g)
        p4 == ReadFloat(p3, j, "strength", "str", ub, g)
    IN  ValueEnabled(p4, j)

\* AsymmetricBlob::from_json
AsymmetricBlob_from_json(f, j, ub, g) ==
    LET p1 == ReadPair(Parsing(f), j, "center", "x", "y", ub, g)
        p2 == ReadFloat(p1, j, "softness", "softness", ub, g)
        p3 == ReadFloat(p2, j, "strength", "str", ub, g)
        p4 == ReadPair(p3, j, "scale", "rad", "minrad", ub, g)
        p5 == ValueFloat(p4, j, "rotation", "theta", 0)
    IN  ValueEnabled(p5, j)

\* UniformBlock::from_json
UniformBlock_from_json(f, j, ub, g) ==
    LET p1 == ReadPair(Parsing(f), j, "center", "x", "y", ub, g)
        p2 == ReadPair(p1, j, "size", "xsize", "ysize", ub, g)
        p3 == ReadFloat(p2, j, "strength", "str", ub, g)
    IN  ValueEnabled(p3, j)

\* BlockOfRandom::from_json
BlockOfRandom_from_json(f, j, ub, g) ==
    LET p1 == ReadPair(Parsing(f), j, "center", "x", "y", ub, g)
        p2 == ReadPair(p1, j, "size", "xsize", "ysize", ub, g)
        p3 == ReadPair(p2, j, "strength range", "minstr", "maxstr", ub, g)
        p4 == ReadFloat(p3, j, "num", "num", ub, g)
    IN  ValueEnabled(p4, j)

\* ParticleEmitter::from_json
ParticleEmitter_from_json(f, j, ub, g) ==
    LET p1 == ReadPair(Parsing(f), j, "center", "x", "y", ub, g)
        p2 == ReadFloat(p1, j, "strength", "str", ub, g)
    IN  ValueEnabled(p2, j)

\* FlowFeature::from_json, dispatched on the feature's class
Feature_from_json(f, j, ub, g) ==
    CASE f.type = "single particle" -> SingleParticle_from_json(f, j, ub, g)
      [] f.type = "vortex blob"     -> VortexBlob_from_json(f, j, ub, g)
      [] f.type = "asymmetric blob" -> AsymmetricBlob_from_json(f, j, ub, g)
      [] f.type = "uniform block"   -> UniformBlock_from_json(f, j, ub, g)
      [] f.type = "block of random" -> BlockOfRandom_from_json(f, j, ub, g)
      [] OTHER                      -> ParticleEmitter_from_json(f, j, ub, g)

\* parse_flow_json(_flist, _jin): the list it leaves and how the call ended
\* ("ok", "ignored" when it returns without a feature, "threw", "aborted")
parse_flow_json(flist, jin, ub, g) ==
    IF ~Has(jin["type"]) THEN [flist |-> flist, status |-> "ignored"]
    ELSE IF Val(jin["type"]).kind # "string" THEN [flist |-> flist, status |-> "threw"]
    ELSE IF Val(jin["type"]).s \notin FeatureTypes
    THEN [flist |-> flist, status |-> "ignored"]
    ELSE LET p == Feature_from_json(NewFeature(Val(jin["type"]).s), jin, ub, g)
         IN  [flist |-> Append(flist, p.f), status |-> p.status]

\* ----------------------------------------------------------------- state
VARIABLES coll,    \* the collection: its ElementBase members and, for a Surfaces, its own
          body,    \* the Body it may be attached to (shared, owned by the simulation)
          op,      \* the operation applied last and its arguments
          nops,    \* how many operations were applied since construction
          bdry,    \* the boundary collections of one BEM system, each with its Body
          nrow,    \* how many of them the BEM driver has given their first row
          hyb,     \* the Hybrid object: active, initialized, whether the program lives
          euler,   \* the Euler volumes handed to the Hybrid (owned by the simulation)
          vort,    \* the vorticity collections handed to the Hybrid: what was done to them
          calls,   \* the calls the running or last Hybrid operation made to its collaborators
          frame,   \* the locals of Hybrid::step and where it stands in part C
          hist,    \* how often the solver was initialised, the Hybrid reset, a document read
          flow     \* the flow features: the list, and what the last call on it returned

\* the state of the Hybrid system
hvars == << hyb, euler, vort, calls, frame, hist >>

vars == << coll, body, op, nops, bdry, nrow, hvars, flow >>

\* a program without flow features
NoFlow == [flist |-> << >>, k |-> 0, out |-> << >>, status |-> "ok", alive |-> TRUE]

\* a program without a Hybrid
NoHybrid ==
    /\ hyb = NewHybrid
    /\ euler = <<>>
    /\ vort = NewVort("points")
    /\ calls = <<>>
    /\ frame = NoFrame
    /\ hist = [inits |-> 0, resets |-> 0, loads |-> 0]

\* node and index arrays handed to the constructor: none, one panel, a panel of
\* zero length, a triangle walked clockwise, the same walked counter-clockwise,
\* an index past the nodes, an odd index count
CtorShapes ==
    { [x |-> <<>>, idx |-> <<>>],
      [x |-> <<0, 0, Unit, 0>>, idx |-> <<0, 1>>],
      [x |-> <<0, 0, Unit, 0>>, idx |-> <<1, 1>>],
      [x |-> <<0, 0, 0, Unit, Unit, 0>>, idx |-> <<0, 1, 1, 2, 2, 0>>],
      [x |-> <<0, 0, Unit, 0, 0, Unit>>, idx |-> <<0, 1, 1, 2, 2, 0>>],
      [x |-> <<0, 0, Unit, 0>>, idx |-> <<0, 2>>],
      [x |-> <<0, 0, Unit, 0>>, idx |-> <<0>>] }

\* node and index arrays handed to add_new: none, one panel between two new
\* nodes, one panel whose second index is past the new nodes, an odd index count
AddShapes ==
    { [x |-> <<>>, idx |-> <<>>],
      [x |-> <<2 * Unit, 0, 2 * Unit, Unit>>, idx |-> <<0, 1>>],
      [x |-> <<2 * Unit, 0, 2 * Unit, Unit>>, idx |-> <<0, 2>>],
      [x |-> <<2 * Unit, 0, 2 * Unit, Unit>>, idx |-> <<1>>] }

\* value arrays: 1, 2, ... of the given length
ValOf(len) == [i \in 1..len |-> i * Unit]

ValLens(nsurfs) == {nsurfs, 2 * nsurfs}

\* strength vectors handed to set_str: v, v+1, ... for v = 0 and v = 1, empty,
\* of the length of np and one longer
StrVecs(c) ==
    { [i \in 1..len |-> (v + i - 1) * Unit] : len \in {0, c.np, c.np + 1}, v \in {0, 1} }

\* freestream velocities handed to finalize_vels
FreeStreams == { <<Unit, 0>>, <<0, Unit>> }

\* a read past the end of x or ux is possible in this state
ReadsPastEnd(c) ==
    \/ \E k \in 1..Len(c.idx) : c.idx[k] >= Len(c.x[1])
    \/ Has(c.ux) /\ Len(Val(c.ux)[1]) < c.n

\* what such a read may yield
Garbage(c) == IF ReadsPastEnd(c) THEN {0, Unit} ELSE {0}

\* what a read past the end may yield in add_new, whose new indices may
\* themselves point past the nodes
AddGarbage(c, sh) ==
    IF ReadsPastEnd(c) \/ \E k \in 1..Len(sh.idx) : sh.idx[k] >= Len(sh.x) \div 2
    THEN {0, Unit} ELSE {0}

\* what back() of an empty vector may yield in set_str
BackGarbage(c, B) == IF is_augmented(c, B) THEN {0, Unit} ELSE {0}

\* time steps dt handed to move: none and one unit of time
TimeSteps == {0, 1}

NoOp == [name |-> "new", t |-> 0, dt |-> 0, arg |-> <<>>]

Ready == coll.alive /\ nops < MaxOps

\* --------------------------------------------------- the Surfaces system
Init ==
    \E sh \in CtorShapes, e \in ElemTypes, m \in MoveTypes,
       bn \in {"none"} \cup BodyNames :
      \E vl \in ValLens(Len(sh.idx) \div 2) :
        /\ coll = Surfaces(sh.x, sh.idx, ValOf(vl), e, m, bn # "none")
        /\ body = NewBody(bn)
        /\ op = NoOp
        /\ nops = 0
        /\ bdry = <<>>
        /\ nrow = 0
        /\ flow = NoFlow
        /\ NoHybrid

AddNew ==
    /\ Ready
    /\ \E sh \in AddShapes, vl \in 1..2,
          crash \in IF coll.E = "reactive" /\ ~Has(coll.bc[1]) THEN BOOLEAN ELSE {FALSE} :
         \E g \in AddGarbage(coll, sh) :
         /\ coll.n + Len(sh.x) \div 2 <= MaxNodes
         /\ coll' = Surfaces_add_new(coll, sh.x, sh.idx,
                                     IF Len(sh.idx) = 0 THEN <<>> ELSE ValOf(vl), g, crash)
         /\ op' = [name |-> "add_new", t |-> 0, dt |-> 0, arg |-> sh.idx]
    /\ nops' = nops + 1
    /\ UNCHANGED << body, bdry, nrow, flow, hvars >>

Transform ==
    /\ Ready
    /\ \E t \in 0..MaxTime, g \in Garbage(coll) :
         LET r == Surfaces_transform(coll, body, t, g)
         IN  /\ coll' = r.c
             /\ body' = r.B
             /\ op' = [name |-> "transform", t |-> t, dt |-> 0, arg |-> <<>>]
    /\ nops' = nops + 1
    /\ UNCHANGED << bdry, nrow, flow, hvars >>

Move ==
    /\ Ready
    /\ \E t \in 0..MaxTime, dt \in TimeSteps, g \in Garbage(coll) :
         LET r == ElementBase_move(coll, body, t, dt, g)
         IN  /\ coll' = r.c
             /\ body' = r.B
             /\ op' = [name |-> "move", t |-> t, dt |-> dt, arg |-> <<>>]
    /\ nops' = nops + 1
    /\ UNCHANGED << bdry, nrow, flow, hvars >>

SetStr ==
    /\ Ready
    /\ \E in \in StrVecs(coll) :
         \E g \in IF Len(in) = 0 THEN BackGarbage(coll, body) ELSE {0} :
         /\ coll' = Surfaces_set_str(coll, body, in, g)
         /\ op' = [name |-> "set_str", t |-> 0, dt |-> 0, arg |-> in]
    /\ nops' = nops + 1
    /\ UNCHANGED << body, bdry, nrow, flow, hvars >>

ZeroVels ==
    /\ Ready
    /\ coll' = Surfaces_zero_vels(coll)
    /\ op' = [name |-> "zero_vels", t |-> 0, dt |-> 0, arg |-> <<>>]
    /\ nops' = nops + 1
    /\ UNCHANGED << body, bdry, nrow, flow, hvars >>

FinalizeVels ==
    /\ Ready
    /\ \E fs \in FreeStreams :
         /\ coll' = Surfaces_finalize_vels(coll, fs)
         /\ op' = [name |-> "finalize_vels", t |-> 0, dt |-> 0, arg |-> fs]
    /\ nops' = nops + 1
    /\ UNCHANGED << body, bdry, nrow, flow, hvars >>

Next == AddNew \/ Transform \/ Move \/ SetStr \/ ZeroVels \/ FinalizeVels

Spec == Init /\ [][Next]_vars

\* ------------------------------- the Surfaces system seen as a set of panels
\* rotation rates handed to add_rot_strengths_base
Omegas == {Unit, 0 - 2 * Unit}

\* offsets handed to represent_as_particles
Offsets == {0, Unit \div 10}

\* core radii handed to represent_as_particles
VDeltas == {Unit \div 2}

\* represent_as_particles reads ps, and bc[0] of a reactive surface, without
\* looking whether they are there
ReadsAbsentStrength(c) ==
    /\ c.np > 0
    /\ \/ ~Has(c.ps)
       \/ Len(Val(c.ps)) < c.np
       \/ c.E = "reactive" /\ (~Has(c.bc[1]) \/ Len(Val(c.bc[1])) < c.np)

AddRotStrengths ==
    /\ Ready
    /\ \E w \in Omegas, g \in Garbage(coll) :
         /\ coll' = add_rot_strengths_base(coll, body, w, g)
         /\ op' = [name |-> "add_rot_strengths_base", t |-> 0, dt |-> 0, arg |-> << w >>]
    /\ nops' = nops + 1
    /\ UNCHANGED << body, bdry, nrow, flow, hvars >>

\* the returned vector is kept as the last entry of op.arg, after the arguments
RepresentAsParticles ==
    /\ Ready
    /\ \E off \in Offsets, vd \in VDeltas, g \in Garbage(coll) :
         \E gs \in IF ReadsAbsentStrength(coll) THEN {0, Unit} ELSE {0},
            crash \in IF ReadsAbsentStrength(coll) THEN BOOLEAN ELSE {FALSE} :
           /\ coll' = IF crash THEN Abort(coll) ELSE coll
           /\ op' = [name |-> "represent_as_particles", t |-> 0, dt |-> 0,
                     arg |-> << off, vd,
                                IF crash THEN <<>>
                                ELSE represent_as_particles(coll, off, vd, g, gs) >>]
    /\ nops' = nops + 1
    /\ UNCHANGED << body, bdry, nrow, flow, hvars >>

NextPanels == Transform \/ SetStr \/ AddRotStrengths \/ RepresentAsParticles

SpecPanels == Init /\ [][NextPanels]_vars

\* ------------------------------------------- the ElementBase (Points) system
InitElem ==
    \E e \in ElemTypes, m \in MoveTypes, bn \in {"none"} \cup BodyNames, n0 \in 0..MaxPts :
        /\ coll = NewPoints(e, m, bn # "none", n0)
        /\ body = NewBody(bn)
        /\ op = NoOp
        /\ nops = 0
        /\ bdry = <<>>
        /\ nrow = 0
        /\ flow = NoFlow
        /\ NoHybrid

\* packed arrays handed to ElementBase::add_new: 1, 2, ... of every length
FlatVecs == { ValOf(len) : len \in 0..MaxFlat }

ElemAddNew ==
    /\ Ready
    /\ \E in \in FlatVecs :
         /\ coll.n + Len(in) \div 2 <= MaxNodes
         /\ coll' = ElementBase_add_new(coll, in)
         /\ op' = [name |-> "add_new", t |-> 0, dt |-> 0, arg |-> in]
    /\ nops' = nops + 1
    /\ UNCHANGED << body, bdry, nrow, flow, hvars >>

ElemResize ==
    /\ Ready
    /\ \E nnew \in 0..(coll.n + 1) :
         /\ nnew <= MaxNodes
         /\ coll' = ElementBase_resize(coll, nnew)
         /\ op' = [name |-> "resize", t |-> 0, dt |-> 0, arg |-> <<nnew>>]
    /\ nops' = nops + 1
    /\ UNCHANGED << body, bdry, nrow, flow, hvars >>

ElemSetStr ==
    /\ Ready
    /\ \E len \in {coll.n, coll.n + 1} :
         /\ coll' = ElementBase_set_str(coll, ValOf(len))
         /\ op' = [name |-> "set_str", t |-> 0, dt |-> 0, arg |-> ValOf(len)]
    /\ nops' = nops + 1
    /\ UNCHANGED << body, bdry, nrow, flow, hvars >>

ElemTransform ==
    /\ Ready
    /\ \E t \in 0..MaxTime, g \in Garbage(coll) :
         LET r == ElementBase_transform(coll, body, t, g)
         IN  /\ coll' = r.c
             /\ body' = r.B
             /\ op' = [name |-> "transform", t |-> t, dt |-> 0, arg |-> <<>>]
    /\ nops' = nops + 1
    /\ UNCHANGED << bdry, nrow, flow, hvars >>

\* the node velocities of one dimension written through the reference that
\* ElementBase::get_vel() returns: a shear, element i moving with v*i
SetVel ==
    /\ Ready
    /\ coll.n > 0
    /\ \E d \in 1..2, v \in 1..MaxVel :
         /\ coll' = [coll EXCEPT !.u[d] = [i \in 1..Len(coll.u[d]) |-> v * i * Unit]]
         /\ op' = [name |-> "get_vel", t |-> 0, dt |-> 0, arg |-> <<d, v>>]
    /\ nops' = nops + 1
    /\ UNCHANGED << body, bdry, nrow, flow, hvars >>

NextElem == ElemAddNew \/ ElemResize \/ ElemSetStr \/ ElemTransform \/ Move \/ SetVel

SpecElem == InitElem /\ [][NextElem]_vars

\* ------------------------------------- the strength accessors of ElementBase
\* get_str returns *s without looking whether s holds a value: on an inert
\* collection the read may end the program or yield whatever lies there
ElemGetStr ==
    /\ Ready
    /\ \E crash \in IF Has(coll.s) THEN {FALSE} ELSE BOOLEAN,
          gv \in IF Has(coll.s) THEN {Val(coll.s)} ELSE {<<>>, <<0>>} :
         /\ coll' = IF crash THEN Abort(coll) ELSE coll
         /\ op' = [name |-> "get_str", t |-> 0, dt |-> 0,
                   arg |-> IF crash THEN <<>> ELSE << gv >>]
    /\ nops' = nops + 1
    /\ UNCHANGED << body, bdry, nrow, flow, hvars >>

ElemGetMaxStr ==
    /\ Ready
    /\ coll' = coll
    /\ op' = [name |-> "get_max_str", t |-> 0, dt |-> 0, arg |-> << get_max_str(coll) >>]
    /\ nops' = nops + 1
    /\ UNCHANGED << body, bdry, nrow, flow, hvars >>

ElemGetTotalCirc ==
    /\ Ready
    /\ coll' = coll
    /\ op' = [name |-> "get_total_circ", t |-> 0, dt |-> 0, arg |-> << get_total_circ(coll) >>]
    /\ nops' = nops + 1
    /\ UNCHANGED << body, bdry, nrow, flow, hvars >>

NextAccess == ElemAddNew \/ ElemSetStr \/ ElemGetStr \/ ElemGetMaxStr \/ ElemGetTotalCirc

SpecAccess == InitElem /\ [][NextAccess]_vars

\* ------------------------------------------------------- the Hybrid system
\* the Hybrid may be called: the program lives and no step is running
HReady == hyb.alive /\ frame.pc = "idle" /\ nops < MaxHybridOps

\* the numbers of points the solver may return in init
SolverPoints == IF hyb.active /\ ~hyb.initialized THEN 0..MaxSoln ELSE {0}

\* vorticities the solver returns on a solution point; vorticities the particles
\* induce there; masked cell areas
EulVorts == {0, Unit}
LagVorts == {0, Unit - Unit \div 200}
MaskAreas == {0, Unit}

InitHybrid ==
    /\ hyb = NewHybrid
    /\ euler \in { Repeat(<< NewVolume >>, k) : k \in 0..MaxVolumes }
    /\ vort = NewVort("points")
    /\ calls = <<>>
    /\ frame = NoFrame
    /\ hist = [inits |-> 0, resets |-> 0, loads |-> 0]
    /\ op = NoOp
    /\ nops = 0
    /\ coll = NewSurfaces("inert", "fixed", FALSE)
    /\ body = NewBody("none")
    /\ bdry = <<>>
    /\ nrow = 0
    /\ flow = NoFlow

SetActive ==
    /\ HReady
    /\ \E b \in BOOLEAN :
         /\ hyb' = [hyb EXCEPT !.active = b]
         /\ op' = [name |-> "set_active", t |-> 0, dt |-> 0, arg |-> << b >>]
    /\ nops' = nops + 1
    /\ calls' = <<>>
    /\ UNCHANGED << coll, body, bdry, nrow, flow, euler, vort, frame, hist >>

Activate ==
    /\ HReady
    /\ hyb' = [hyb EXCEPT !.active = TRUE]
    /\ op' = [name |-> "activate", t |-> 0, dt |-> 0, arg |-> <<>>]
    /\ nops' = nops + 1
    /\ calls' = <<>>
    /\ UNCHANGED << coll, body, bdry, nrow, flow, euler, vort, frame, hist >>

Deactivate ==
    /\ HReady
    /\ hyb' = [hyb EXCEPT !.active = FALSE]
    /\ op' = [name |-> "deactivate", t |-> 0, dt |-> 0, arg |-> <<>>]
    /\ nops' = nops + 1
    /\ calls' = <<>>
    /\ UNCHANGED << coll, body, bdry, nrow, flow, euler, vort, frame, hist >>

Reset ==
    /\ HReady
    /\ hyb' = [hyb EXCEPT !.initialized = FALSE]
    /\ op' = [name |-> "reset", t |-> 0, dt |-> 0, arg |-> <<>>]
    /\ nops' = nops + 1
    /\ calls' = <<>>
    /\ hist' = [hist EXCEPT !.resets = @ + 1]
    /\ UNCHANGED << coll, body, bdry, nrow, flow, euler, vort, frame >>

FirstStep ==
    /\ HReady
    /\ \E nopen \in SolverPoints, nsoln \in SolverPoints :
         LET r == Hybrid_enter(hyb, euler, nopen, nsoln)
             cs == IF r.go THEN r.calls \o FirstStepCalls(Len(euler)) ELSE r.calls
         IN  /\ hyb' = r.h
             /\ euler' = r.eu
             /\ calls' = cs
             /\ hist' = [hist EXCEPT !.inits = @ + Count(cs, "solver.init_d")]
    /\ op' = [name |-> "first_step", t |-> 0, dt |-> 0, arg |-> <<>>]
    /\ nops' = nops + 1
    /\ UNCHANGED << coll, body, bdry, nrow, flow, vort, frame >>

\* step up to the end of part B; part C follows volume by volume
StepEnter ==
    /\ HReady
    /\ \E nopen \in SolverPoints, nsoln \in SolverPoints :
         LET r == Hybrid_enter(hyb, euler, nopen, nsoln)
             cs == IF r.go THEN r.calls \o StepCalls(Len(euler)) ELSE r.calls
         IN  /\ hyb' = r.h
             /\ euler' = r.eu
             /\ calls' = cs
             /\ hist' = [hist EXCEPT !.inits = @ + Count(cs, "solver.init_d")]
             /\ frame' = IF r.go /\ Len(euler) > 0
                         THEN [NoFrame EXCEPT !.pc = "volume", !.vol = 1]
                         ELSE frame
    /\ op' = [name |-> "step", t |-> 0, dt |-> 0, arg |-> <<>>]
    /\ nops' = nops + 1
    /\ UNCHANGED << coll, body, bdry, nrow, flow, vort >>

\* part C of step for volume frame.vol, up to the initial error
VolumeBegin ==
    /\ hyb.alive /\ frame.pc = "volume"
    /\ LET thisn == Val(euler[frame.vol].soln)
       IN  \E len \in {thisn, thisn + 1} : \E eulvort \in [1..len -> EulVorts] :
             IF ~EulvortSizeOk(eulvort, thisn)
             THEN /\ hyb' = [hyb EXCEPT !.alive = FALSE]
                  /\ calls' = calls \o << "euler.get_vol_nodes", "solver.getallvorts_d" >>
                  /\ frame' = [frame EXCEPT !.eulvort = eulvort]
             ELSE \E lagvort \in [1..thisn -> LagVorts], area \in [1..thisn -> MaskAreas] :
                    /\ hyb' = hyb
                    /\ calls' = calls \o << "euler.get_vol_nodes", "solver.getallvorts_d",
                                           "conv.find_vels", "euler.set_mask_area" >>
                    /\ frame' = [frame EXCEPT
                                   !.pc = "loop", !.eulvort = eulvort,
                                   !.area = area,
                                   !.totalcircmag = TotalCircMag(eulvort, area),
                                   !.thiserror = ThisError(eulvort, lagvort, area),
                                   !.iter = 0]
    /\ UNCHANGED << coll, body, op, nops, bdry, nrow, flow, euler, vort, hist >>

\* one pass of the correction loop
LoopBody ==
    /\ hyb.alive /\ frame.pc = "loop"
    /\ LoopContinues(frame.thiserror, frame.iter)
    /\ \E got \in GetFirstVort(vort) :
         IF got # "points"
         THEN /\ hyb' = [hyb EXCEPT !.alive = FALSE]
              /\ calls' = calls \o << "euler.get_equivalent_particles" >>
              /\ UNCHANGED << frame, vort >>
         ELSE /\ \E lagvort \in [1..Len(frame.eulvort) -> LagVorts] :
                   frame' = [frame EXCEPT
                               !.thiserror = ThisError(frame.eulvort, lagvort, frame.area),
                               !.iter = @ + 1]
              /\ calls' = calls \o << "euler.get_equivalent_particles", "vort.add_new",
                                     "merge_operation", "conv.find_vels" >>
              /\ vort' = [vort EXCEPT !.adds = @ + 1, !.merges = @ + 1]
              /\ hyb' = hyb
    /\ UNCHANGED << coll, body, op, nops, bdry, nrow, flow, euler, hist >>

\* the correction loop is left: on to the next volume, or step returns
LoopExit ==
    /\ hyb.alive /\ frame.pc = "loop"
    /\ ~LoopContinues(frame.thiserror, frame.iter)
    /\ frame' = IF frame.vol < Len(euler)
                THEN [NoFrame EXCEPT !.pc = "volume", !.vol = frame.vol + 1]
                ELSE NoFrame
    /\ UNCHANGED << coll, body, op, nops, bdry, nrow, flow, hyb, euler, vort, calls, hist >>

NextHybrid ==
    \/ SetActive \/ Activate \/ Deactivate \/ Reset \/ FirstStep
    \/ StepEnter \/ VolumeBegin \/ LoopBody \/ LoopExit

SpecHybrid == InitHybrid /\ [][NextHybrid]_vars

\* ------------------------------------------- the Hybrid and its configuration
\* a hybrid section with the given keys
HybridSection(en, eo, to, ns) ==
    [enabled |-> en, elementOrder |-> eo, timeOrder |-> to, numSubsteps |-> ns]

\* configuration documents: without a hybrid section, with an empty one, with
\* values inside the documented ranges, below them and above them
JsonDocs ==
    { [hybrid |-> None],
      [hybrid |-> Some(HybridSection(None, None, None, None))],
      [hybrid |-> Some(HybridSection(Some(TRUE), Some(3), Some(2), Some(50)))],
      [hybrid |-> Some(HybridSection(Some(TRUE), Some(0), Some(3), Some(0)))],
      [hybrid |-> Some(HybridSection(Some(TRUE), Some(6), Some(4), Some(1001)))] }

\* a configuration is loaded between two operations, MaxLoads times at most
FromJson ==
    /\ hyb.alive /\ frame.pc = "idle" /\ hist.loads < MaxLoads
    /\ \E simj \in JsonDocs :
         /\ hyb' = Hybrid_from_json(hyb, simj)
         /\ op' = [name |-> "from_json", t |-> 0, dt |-> 0, arg |-> << simj >>]
    /\ hist' = [hist EXCEPT !.loads = @ + 1]
    /\ calls' = <<>>
    /\ UNCHANGED << coll, body, nops, bdry, nrow, flow, euler, vort, frame >>

NextConfig ==
    \/ FromJson \/ SetActive \/ Reset \/ FirstStep
    \/ StepEnter \/ VolumeBegin \/ LoopBody \/ LoopExit

SpecConfig == InitHybrid /\ [][NextConfig]_vars

\* ------------------------- the Hybrid handed any list of vorticity collections
InitVort ==
    /\ hyb = NewHybrid
    /\ euler \in { Repeat(<< NewVolume >>, k) : k \in 0..MaxVolumes }
    /\ vort \in { NewVort(first) : first \in {"none", "points", "other"} }
    /\ calls = <<>>
    /\ frame = NoFrame
    /\ hist = [inits |-> 0, resets |-> 0, loads |-> 0]
    /\ op = NoOp
    /\ nops = 0
    /\ coll = NewSurfaces("inert", "fixed", FALSE)
    /\ body = NewBody("none")
    /\ bdry = <<>>
    /\ nrow = 0
    /\ flow = NoFlow

SpecVort == InitVort /\ [][NextHybrid]_vars

\* step runs on once entered
SpecHybridLive ==
    SpecHybrid /\ WF_vars(VolumeBegin) /\ WF_vars(LoopBody) /\ WF_vars(LoopExit)

\* ------------------------------------------------- the BEM row packing
\* the reactive boundary collections a BEM system is built from
RowSurfaces ==
    { [c |-> Surfaces(sh.x, sh.idx, ValOf(Len(sh.idx) \div 2), e, m, bn # "none"),
       B |-> NewBody(bn)] :
        sh \in CtorShapes, e \in {"reactive"}, m \in {"bodybound", "fixed"},
        bn \in {"none"} \cup BodyNames }

InitRows ==
    /\ bdry \in [1..MaxSurfs -> { r \in RowSurfaces : r.c.alive }]
    /\ nrow = 0
    /\ flow = NoFlow
    /\ coll = NewSurfaces("inert", "fixed", FALSE)
    /\ body = NewBody("none")
    /\ op = NoOp
    /\ nops = 0
    /\ NoHybrid

\* the BEM driver gives the next collection its first row: 0 for the first,
\* the previous collection's next row for the others
PackRow ==
    /\ nrow < Len(bdry)
    /\ bdry' = [bdry EXCEPT ![nrow + 1].c =
                  set_first_row(@, IF nrow = 0 THEN 0
                                   ELSE get_next_row(bdry[nrow].c, bdry[nrow].B))]
    /\ nrow' = nrow + 1
    /\ UNCHANGED << coll, body, op, nops, hvars, flow >>

NextRows == PackRow

SpecRows == InitRows /\ [][NextRows]_vars

\* ------------------------------------------------ the flow-feature system
\* a feature description with the given type and no other key
TypeOnly(type) == [key \in FlowKeys |-> IF key = "type" THEN type ELSE None]

\* descriptions of a particle ("single particle", "particle emitter")
ParticleDoc(type, center, strength, enabled) ==
    [TypeOnly(JStr(type)) EXCEPT !["center"] = center, !["strength"] = strength,
                                 !["enabled"] = enabled]

Origin == JArr(<< Unit, 0 >>)

\* feature descriptions handed to parse_flow_json: without a type, with a type
\* that names no feature, with a type that is no string; complete ones of every
\* kind, enabled and disabled; ones that lack a required key, carry a string
\* where a number belongs, a centre of one coordinate, an enabled that is a number
FlowDocs ==
    { TypeOnly(None), TypeOnly(JStr("doublet")), TypeOnly(JNum(1)),
      ParticleDoc("single particle", Origin, JNum(Unit \div 2), None),
      ParticleDoc("single particle", Origin, JNum(Unit \div 2), JBool(FALSE)),
      ParticleDoc("single particle", Origin, None, None),
      ParticleDoc("single particle", Origin, JStr("strong"), None),
      ParticleDoc("single particle", JArr(<< Unit >>), JNum(Unit \div 2), None),
      ParticleDoc("single particle", Origin, JNum(Unit \div 2), JNum(1)),
      ParticleDoc("particle emitter", Origin, JNum(Unit \div 4), None),
      ParticleDoc("particle emitter", Origin, JNum(Unit \div 4), JBool(FALSE)),
      ParticleDoc("particle emitter", None, JNum(Unit \div 4), None),
      [ParticleDoc("vortex blob", Origin, JNum(Unit), None)
          EXCEPT !["radius"] = JNum(Unit \div 10), !["softness"] = JNum(Unit \div 10)],
      [ParticleDoc("vortex blob", Origin, JNum(Unit), None)
          EXCEPT !["softness"] = JNum(Unit \div 10)],
      [ParticleDoc("asymmetric blob", Origin, JNum(Unit), JBool(TRUE))
          EXCEPT !["softness"] = JNum(Unit \div 10),
                 !["scale"] = JArr(<< Unit \div 5, Unit \div 10 >>),
                 !["rotation"] = JNum(90)],
      [ParticleDoc("uniform block", Origin, JNum(Unit), None)
          EXCEPT !["size"] = JArr(<< Unit \div 10, Unit \div 10 >>)],
      [ParticleDoc("block of random", Origin, None, None)
          EXCEPT !["size"] = JArr(<< Unit, Unit >>),
                 !["strength range"] = JArr(<< 0, Unit >>),
                 !["num"] = JNum(2)] }

\* what a build makes of undefined behaviour: it stops, or it reads on
UbOutcomes == {"abort", "garbage"}

\* what a read of a missing key or past the end of an array may yield
FlowGarbage == {0, Unit \div 5}

\* inter-particle spacings handed to init_particles and step_particles
Ipss == {Unit \div 10}

\* what the random generator may yield over one call of init_particles
RandomSeqs(f) ==
    IF f.type = "block of random" /\ is_enabled(f) THEN [1..f.num -> RandomDraws]
    ELSE { << >> }

FlowReady == flow.alive /\ nops < MaxOps

InitFlow ==
    /\ flow = NoFlow
    /\ op = NoOp
    /\ nops = 0
    /\ coll = NewSurfaces("inert", "fixed", FALSE)
    /\ body = NewBody("none")
    /\ bdry = <<>>
    /\ nrow = 0
    /\ NoHybrid

\* the reader hands one description to parse_flow_json; an exception leaves
\* the call and the reader goes on, an abort ends the program
ParseFlowJson ==
    /\ FlowReady
    /\ \E jin \in FlowDocs, ub \in UbOutcomes, g \in FlowGarbage :
         LET r == parse_flow_json(flow.flist, jin, ub, g)
         IN  /\ flow' = [flist |-> r.flist, k |-> 0, out |-> << >>,
                         status |-> r.status, alive |-> r.status # "aborted"]
             /\ op' = [name |-> "parse_flow_json", t |-> 0, dt |-> 0, arg |-> << jin >>]
    /\ nops' = nops + 1
    /\ UNCHANGED << coll, body, bdry, nrow, hvars >>

\* init_particles of one feature of the list
InitParticles ==
    /\ FlowReady
    /\ \E k \in 1..Len(flow.flist), ips \in Ipss :
         \E rnd \in RandomSeqs(flow.flist[k]) :
           /\ flow' = [flow EXCEPT !.k = k, !.status = "ok",
                                   !.out = init_particles(flow.flist[k], ips, rnd)]
           /\ op' = [name |-> "init_particles", t |-> 0, dt |-> 0, arg |-> << ips >>]
    /\ nops' = nops + 1
    /\ UNCHANGED << coll, body, bdry, nrow, hvars >>

\* step_particles of one feature of the list
StepParticles ==
    /\ FlowReady
    /\ \E k \in 1..Len(flow.flist), ips \in Ipss :
         /\ flow' = [flow EXCEPT !.k = k, !.status = "ok",
                                 !.out = step_particles(flow.flist[k], ips)]
         /\ op' = [name |-> "step_particles", t |-> 0, dt |-> 0, arg |-> << ips >>]
    /\ nops' = nops + 1
    /\ UNCHANGED << coll, body, bdry, nrow, hvars >>

NextFlow == ParseFlowJson \/ InitParticles \/ StepParticles

SpecFlow == InitFlow /\ [][NextFlow]_vars

\* ------------------------------------- a Surfaces built in two batches
\* a batch of nodes, panels and values as the constructor and add_new take them
Batch(x, idx, val) == [x |-> x, idx |-> idx, val |-> val]

\* first batches: none, one panel, a triangle walked clockwise, the same
\* walked counter-clockwise
FirstBatches ==
    { Batch(<<>>, <<>>, <<>>),
      Batch(<<0, 0, Unit, 0>>, <<0, 1>>, <<Unit>>),
      Batch(<<0, 0, 0, Unit, Unit, 0>>, <<0, 1, 1, 2, 2, 0>>, <<Unit, 2 * Unit, 3 * Unit>>),
      Batch(<<0, 0, Unit, 0, 0, Unit>>, <<0, 1, 1, 2, 2, 0>>, <<Unit, 2 * Unit, 3 * Unit>>) }

\* second batches: one panel between two new nodes, two panels over three
SecondBatches ==
    { Batch(<<2 * Unit, 0, 2 * Unit, Unit>>, <<0, 1>>, <<5 * Unit>>),
      Batch(<<2 * Unit, 0, 2 * Unit, Unit, 3 * Unit, Unit>>, <<0, 1, 1, 2>>,
            <<5 * Unit, 6 * Unit>>) }

\* the two batches as one: the second batch's indices count on from the
\* first batch's nodes
Concatenated(b1, b2) ==
    Batch(b1.x \o b2.x,
          b1.idx \o [k \in 1..Len(b2.idx) |-> Len(b1.x) \div 2 + b2.idx[k]],
          b1.val \o b2.val)

InitBuild ==
    \E b1 \in FirstBatches, e \in ElemTypes, m \in MoveTypes,
       bn \in {"none"} \cup BodyNames :
        /\ coll = Surfaces(b1.x, b1.idx, b1.val, e, m, bn # "none")
        /\ body = NewBody(bn)
        /\ op = [name |-> "new", t |-> 0, dt |-> 0, arg |-> << b1 >>]
        /\ nops = 0
        /\ bdry = <<>>
        /\ nrow = 0
        /\ flow = NoFlow
        /\ NoHybrid

\* add_new with the second batch, right after construction
BuildAddNew ==
    /\ Ready /\ nops = 0
    /\ \E b2 \in SecondBatches,
          crash \in IF coll.E = "reactive" /\ ~Has(coll.bc[1]) THEN BOOLEAN ELSE {FALSE} :
         /\ coll' = Surfaces_add_new(coll, b2.x, b2.idx, b2.val, 0, crash)
         /\ op' = [name |-> "add_new", t |-> 0, dt |-> 0, arg |-> << op.arg[1], b2 >>]
    /\ nops' = nops + 1
    /\ UNCHANGED << body, bdry, nrow, flow, hvars >>

NextBuild == BuildAddNew

SpecBuild == InitBuild /\ [][NextBuild]_vars

\* ------------------------------------------- the rotation-strength system
\* factors handed to the add_*_rot_strengths operations: one and its negative
RotFactors == {Unit, 0 - Unit}

\* the strengths of a surface: what the operations below may change
StrengthsOf(c) == [ps |-> c.ps, rs |-> c.rs]

RotReady == coll.alive /\ nops < MaxRotOps

\* the operation before this one and its factor, kept as the third entry of op.arg
LastRot == IF op.name = "new" THEN << "new", 0 >> ELSE << op.name, op.arg[1] >>

\* the strengths before the call are kept as the second entry of op.arg
AddRotStrengthsBase ==
    /\ RotReady
    /\ \E w \in RotFactors, g \in Garbage(coll) :
         /\ coll' = add_rot_strengths_base(coll, body, w, g)
         /\ op' = [name |-> "add_rot_strengths_base", t |-> 0, dt |-> 0,
                   arg |-> << w, StrengthsOf(coll), LastRot >>]
    /\ nops' = nops + 1
    /\ UNCHANGED << body, bdry, nrow, flow, hvars >>

AddRotStrengthsOfBody ==
    /\ RotReady
    /\ \E w \in RotFactors, g \in Garbage(coll) :
         /\ coll' = add_rot_strengths(coll, body, w, g)
         /\ op' = [name |-> "add_rot_strengths", t |-> 0, dt |-> 0,
                   arg |-> << w, StrengthsOf(coll), LastRot >>]
    /\ nops' = nops + 1
    /\ UNCHANGED << body, bdry, nrow, flow, hvars >>

AddUnitRotStrengths ==
    /\ RotReady
    /\ \E g \in Garbage(coll) :
         /\ coll' = add_unit_rot_strengths(coll, body, g)
         /\ op' = [name |-> "add_unit_rot_strengths", t |-> 0, dt |-> 0,
                   arg |-> << Unit, StrengthsOf(coll), LastRot >>]
    /\ nops' = nops + 1
    /\ UNCHANGED << body, bdry, nrow, flow, hvars >>

AddSolvedRotStrengths ==
    /\ RotReady
    /\ \E w \in RotFactors, g \in Garbage(coll) :
         /\ coll' = add_solved_rot_strengths(coll, body, w, g)
         /\ op' = [name |-> "add_solved_rot_strengths", t |-> 0, dt |-> 0,
                   arg |-> << w, StrengthsOf(coll), LastRot >>]
    /\ nops' = nops + 1
    /\ UNCHANGED << body, bdry, nrow, flow, hvars >>

NextRot ==
    \/ AddRotStrengthsBase \/ AddRotStrengthsOfBody
    \/ AddUnitRotStrengths \/ AddSolvedRotStrengths

SpecRot == Init /\ [][NextRot]_vars

\* ----------------------------------------------------------------- claims
\* the four conditions the augmentation predicate is documented to require
AugmentWanted(c, B) ==
    c.E = "reactive" /\ c.hasB /\ B.name # "ground" /\ c.vol > 0

\* C1: is_augmented() is true exactly when the surface is reactive, has a Body,
\* that Body is not named "ground" and vol > 0, and get_num_rows counts the
\* extra row in exactly that case.
C1_AugmentedIffAllFour ==
    coll.alive =>
      /\ is_augmented(coll, body) <=> AugmentWanted(coll, body)
      /\ get_num_rows(coll, body) =
           coll.np * num_unknowns_per_panel(coll) + (IF AugmentWanted(coll, body) THEN 1 ELSE 0)

\* C2: after construction and after add_new calls that pass their checks,
\* every stored panel node index is below the node count n.
C2_IdxInRange ==
    coll.alive => \A k \in 1..Len(coll.idx) : coll.idx[k] < coll.n

\* C3: every per-node array has length n, every panel-centric array that is
\* present has length np, and idx has length 2*np.
C3_ArrayLengths ==
    coll.alive =>
      /\ \A d \in 1..2 : Len(coll.x[d]) = coll.n /\ Len(coll.u[d]) = coll.n
      /\ Has(coll.s) => Len(Val(coll.s)) = coll.n
      /\ Len(coll.idx) = 2 * coll.np
      /\ Len(coll.area) = coll.np
      /\ \A k \in 1..2 : \A d \in 1..2 : Len(coll.b[k][d]) = coll.np
      /\ \A d \in 1..2 : Len(coll.pu[d]) = coll.np
      /\ Has(coll.ps) => Len(Val(coll.ps)) = coll.np
      /\ Has(coll.bc[1]) => Len(Val(coll.bc[1])) = coll.np

\* the surface has panels only between two distinct existing nodes
WellFormed(c) ==
    /\ Len(c.idx) = 2 * c.np
    /\ Len(c.area) = c.np
    /\ \A k \in 1..Len(c.idx) : c.idx[k] < c.n
    /\ \A i \in 1..c.np :
         \/ c.x[1][c.idx[2 * i - 1] + 1] # c.x[1][c.idx[2 * i] + 1]
         \/ c.x[2][c.idx[2 * i - 1] + 1] # c.x[2][c.idx[2 * i] + 1]

\* panel i (1-based) has the length, unit tangent and normal its end nodes give:
\* area is the distance rounded down to 1/Unit, the tangent times the area is
\* the edge vector to within the rounding of 1/area, the normal is the tangent
\* turned by 90 degrees counter-clockwise
PanelMatches(c, i) ==
    LET dx == c.x[1][c.idx[2 * i] + 1] - c.x[1][c.idx[2 * i - 1] + 1]
        dy == c.x[2][c.idx[2 * i] + 1] - c.x[2][c.idx[2 * i - 1] + 1]
        a  == c.area[i]
        tx == c.b[1][1][i]
        ty == c.b[1][2][i]
    IN  /\ a * a <= dx * dx + dy * dy
        /\ dx * dx + dy * dy < (a + 1) * (a + 1)
        /\ IsNum(tx) /\ IsNum(ty)
        /\ Abs(tx * a - dx * Unit) <= Abs(dx) + a
        /\ Abs(ty * a - dy * Unit) <= Abs(dy) + a
        /\ c.b[2][1][i] = 0 - ty
        /\ c.b[2][2][i] = tx

GeometryMatches(c) == \A i \in 1..c.np : PanelMatches(c, i)

\* C4: after construction and after every add_new, transform and move, the
\* area, tangent and normal of every panel match the current node positions
\* (stated for surfaces whose panels join two distinct existing nodes).
C4_GeometryFollowsNodes ==
    (coll.alive /\ WellFormed(coll)) => GeometryMatches(coll)

\* p turned by the angle with cosine ct and sine st, then shifted by pos
RigidMap(p, pos, ct, st) ==
    << FAdd(pos[1], FSub(FMul(p[1], ct), FMul(p[2], st))),
       FAdd(pos[2], FAdd(FMul(p[1], st), FMul(p[2], ct))) >>

\* nodes and geometric centre are the images of ux and utc under the rigid map
\* with the given cosine and sine
OneRigidMap(c, B, ct, st) ==
    /\ \A i \in 1..c.n :
         << c.x[1][i], c.x[2][i] >> =
            RigidMap(<< Val(c.ux)[1][i], Val(c.ux)[2][i] >>, B.pos, ct, st)
    /\ c.tc = RigidMap(c.utc, B.pos, ct, st)

\* C5: after transform(t) on a bodybound surface with vol > 0, the nodes and the
\* geometric centre are images under one rigid map: the Body's position and its
\* orientation read in one angular unit (degrees for both, or radians for both).
C5_OneRigidMapForNodesAndCentre ==
    (coll.alive /\ op.name = "transform" /\ coll.M = "bodybound" /\ coll.hasB
       /\ coll.vol > 0 /\ ~ReadsPastEnd(coll)) =>
      \/ OneRigidMap(coll, body, CosDeg(body.orient), SinDeg(body.orient))
      \/ OneRigidMap(coll, body, CosRad(body.orient), SinRad(body.orient))

\* the step just taken applied the named operation
Applied(name) == nops' = nops + 1 /\ op'.name = name

\* C6: set_str on an augmented surface removes the last entry of the vector,
\* stores it as solved_omega and sets omega_error to solved_omega minus the
\* Body's rotation rate; on a surface that is not augmented both are unchanged;
\* the remaining vector replaces ps when it has the length of ps and the call
\* fails otherwise, so the length of ps is preserved.
C6_SetStrPopsOmegaAndReplacesPs ==
    [][ (Applied("set_str") /\ Has(coll.ps)
           /\ ~(is_augmented(coll, body) /\ Len(op'.arg) = 0)) =>
          LET in   == op'.arg
              aug  == is_augmented(coll, body)
              rest == IF aug THEN SubSeq(in, 1, Len(in) - 1) ELSE in
          IN  /\ aug => /\ coll'.solved_omega = in[Len(in)]
                        /\ coll'.omega_error = in[Len(in)] - body.rotvel
              /\ ~aug => /\ coll'.solved_omega = coll.solved_omega
                         /\ coll'.omega_error = coll.omega_error
              /\ Len(rest) # Len(Val(coll.ps)) => ~coll'.alive
              /\ Len(rest) = Len(Val(coll.ps)) =>
                   /\ coll'.alive
                   /\ coll'.ps = Some(rest)
                   /\ coll'.np = coll.np
                   /\ Len(Val(coll.ps)) = coll.np => Len(Val(coll'.ps)) = coll'.np
      ]_vars

\* an augmented surface took a vector of np + 1 entries: the last one is its
\* solved rotation rate, the others are its panel strengths
C6_Witness ==
    /\ coll.alive /\ op.name = "set_str" /\ is_augmented(coll, body)
    /\ coll.np >= 1 /\ Len(op.arg) = coll.np + 1
    /\ coll.solved_omega = op.arg[Len(op.arg)] /\ coll.solved_omega # 0
    /\ coll.omega_error = coll.solved_omega - body.rotvel
    /\ Val(coll.ps) = SubSeq(op.arg, 1, coll.np)

\* rows k with first <= k < first + rows
RowRange(r) == { k \in 0..(4 * MaxNodes * MaxSurfs) :
                   /\ get_first_row(r.c) <= k
                   /\ k < get_first_row(r.c) + get_num_rows(r.c, r.B) }

\* C7: a surface has np rows per boundary-condition array present plus one when
\* it is augmented; its next row is its first row plus its rows; with every
\* surface's first row set to the previous surface's next row the row ranges
\* follow one another without gap and no two share a row.
C7_RowsContiguousAndDisjoint ==
    /\ \A j \in 1..Len(bdry) :
         get_num_rows(bdry[j].c, bdry[j].B) =
            bdry[j].c.np * ((IF Has(bdry[j].c.bc[1]) THEN 1 ELSE 0)
                              + (IF Has(bdry[j].c.bc[2]) THEN 1 ELSE 0))
              + (IF is_augmented(bdry[j].c, bdry[j].B) THEN 1 ELSE 0)
    /\ \A j \in 1..nrow :
         get_next_row(bdry[j].c, bdry[j].B) =
            get_first_row(bdry[j].c) + get_num_rows(bdry[j].c, bdry[j].B)
    /\ \A j \in 1..(nrow - 1) :
         get_first_row(bdry[j + 1].c) =
            get_first_row(bdry[j].c) + get_num_rows(bdry[j].c, bdry[j].B)
    /\ \A i \in 1..nrow : \A j \in 1..nrow :
         i # j => RowRange(bdry[i]) \cap RowRange(bdry[j]) = {}

\* two surfaces are packed, the first augmented with three panels (rows 0..3),
\* the second starting at row 4 with rows of its own
C7_Witness ==
    /\ nrow = 2
    /\ is_augmented(bdry[1].c, bdry[1].B)
    /\ get_first_row(bdry[1].c) = 0
    /\ get_num_rows(bdry[1].c, bdry[1].B) = 4
    /\ get_first_row(bdry[2].c) = 4
    /\ get_num_rows(bdry[2].c, bdry[2].B) >= 1

\* C8: ElementBase::add_new reads 2 numbers per element of an inert collection
\* and 4 otherwise; a length that is no multiple of that fails and changes
\* nothing; an empty array changes nothing; otherwise the elements are appended
\* with x, y (and the strength when there is one) taken in order, the first n
\* elements are kept and n grows by the number of elements appended.
C8_AddNewAppendsByStride ==
    [][ Applied("add_new") =>
          LET in     == op'.arg
              stride == IF coll.E = "inert" THEN 2 ELSE 4
              nnew   == Len(in) \div stride
          IN  /\ Len(in) % stride # 0 => coll' = [coll EXCEPT !.alive = FALSE]
              /\ Len(in) = 0 => coll' = coll
              /\ (Len(in) % stride = 0 /\ Len(in) > 0) =>
                   /\ coll'.alive
                   /\ coll'.n = coll.n + nnew
                   /\ \A d \in 1..2 :
                        /\ Len(coll'.x[d]) = coll'.n
                        /\ \A i \in 1..coll.n : coll'.x[d][i] = coll.x[d][i]
                        /\ \A k \in 1..nnew :
                             coll'.x[d][coll.n + k] = in[stride * (k - 1) + d]
                   /\ Has(coll'.s) = Has(coll.s)
                   /\ Has(coll.s) =>
                        /\ Len(Val(coll'.s)) = coll'.n
                        /\ \A i \in 1..coll.n : Val(coll'.s)[i] = Val(coll.s)[i]
                        /\ \A k \in 1..nnew :
                             Val(coll'.s)[coll.n + k] = in[stride * (k - 1) + 3]
      ]_vars

\* two elements were appended from eight numbers behind an element already
\* there: the last element holds the 5th, 6th and 7th number
C8_Witness ==
    /\ coll.alive /\ op.name = "add_new" /\ Len(op.arg) = 8
    /\ coll.E = "active" /\ coll.n >= 3
    /\ coll.x[1][coll.n] = 5 * Unit /\ coll.x[2][coll.n] = 6 * Unit
    /\ Val(coll.s)[coll.n] = 7 * Unit
    /\ coll.x[1][1] = Unit

\* the node positions a Body at the given position and orientation (degrees)
\* gives to the untransformed positions uxs
BodyImage(uxs, cnt, pos, orient) ==
    [d \in 1..2 |->
       [i \in 1..cnt |->
          RigidMap(<< uxs[1][i], uxs[2][i] >>, pos, CosDeg(orient), SinDeg(orient))[d]]]

\* C9: move(t, dt) adds dt*u to every position of a lagrangian collection, sets
\* the positions of a bodybound collection with a Body to the rigid transform of
\* ux at time t + dt, and leaves the positions of any other collection alone;
\* u, s and n are never changed.
C9_MoveDispatch ==
    [][ Applied("move") =>
          LET t  == op'.t
              dt == op'.dt
          IN  /\ coll'.u = coll.u /\ coll'.s = coll.s /\ coll'.n = coll.n
              /\ coll.M = "lagrangian" =>
                   \A d \in 1..2 : \A i \in 1..coll.n :
                      coll'.x[d][i] = coll.x[d][i] + dt * coll.u[d][i]
              /\ (coll.M = "bodybound" /\ coll.hasB) =>
                   coll'.x = BodyImage(Val(coll.ux), coll.n,
                                       BodyPosAt(body.name, t + dt),
                                       BodyOrientAt(body.name, t + dt))
              /\ (coll.M = "fixed" \/ (coll.M = "bodybound" /\ ~coll.hasB)) =>
                   coll'.x = coll.x
      ]_vars

\* a lagrangian surface whose nodes have the freestream velocity (1, 0) was
\* moved over dt = 1: its first node went from x = 0 to x = 1
C9_Witness ==
    /\ coll.alive /\ op.name = "move" /\ op.dt = 1 /\ coll.M = "lagrangian"
    /\ coll.n >= 2 /\ coll.u[1][1] = Unit /\ coll.x[1][1] = Unit /\ coll.x[2][1] = 0

\* C10 as stated: move(t, 0) leaves every node position unchanged, whatever the
\* movement model.
C10_ZeroStepKeepsPositions ==
    [][ (Applied("move") /\ op'.dt = 0) => coll'.x = coll.x ]_vars

\* C10 as amended: move(t, 0) leaves the positions of a lagrangian collection
\* with finite velocities, of a fixed collection and of a bodybound collection
\* without a Body unchanged; it sets those of a bodybound collection with a Body
\* to the rigid transform of ux at time t, so they are unchanged exactly when
\* they already are that transform.
C10_ZeroStepKeepsOrSnapsToBody ==
    [][ (Applied("move") /\ op'.dt = 0) =>
          LET image == BodyImage(Val(coll.ux), coll.n,
                                 BodyPosAt(body.name, op'.t),
                                 BodyOrientAt(body.name, op'.t))
          IN  /\ (coll.M = "lagrangian"
                    /\ \A d \in 1..2 : \A i \in 1..coll.n : IsNum(coll.u[d][i])) =>
                   coll'.x = coll.x
              /\ (coll.M = "fixed" \/ (coll.M = "bodybound" /\ ~coll.hasB)) =>
                   coll'.x = coll.x
              /\ (coll.M = "bodybound" /\ coll.hasB) =>
                   /\ coll'.x = image
                   /\ coll'.x = coll.x <=> coll.x = image
      ]_vars

\* a lagrangian surface whose nodes have the freestream velocity (1, 0) was
\* moved over dt = 0 and its first node is still at the origin
C10_Witness ==
    /\ coll.alive /\ op.name = "move" /\ op.dt = 0 /\ coll.M = "lagrangian"
    /\ coll.n >= 2 /\ coll.u[1][1] = Unit /\ coll.x[1][1] = 0 /\ coll.x[2][1] = 0

\* C11: an empty collection of points (n = 0, its strength array absent or
\* empty) has get_n() = 0, get_max_str() = 1 and get_total_circ() = 0.
C11_EmptyPointsAccessors ==
    (coll.alive /\ coll.n = 0 /\ (Has(coll.s) => Len(Val(coll.s)) = 0)) =>
      /\ get_n(coll) = 0
      /\ get_max_str(coll) = Unit
      /\ get_total_circ(coll) = 0

\* C12: compute_bases reports an error for a panel whose two end nodes
\* coincide instead of storing its basis, so a surface that is still in use has
\* a positive area and a finite tangent for every panel.
C12_NoDegeneratePanelStored ==
    coll.alive =>
      \A i \in 1..Len(coll.area) :
         /\ coll.area[i] > 0
         /\ IsNum(coll.b[1][1][i]) /\ IsNum(coll.b[1][2][i])

\* two fixed-point numbers that differ by rounding only
Close(a, b) == IsNum(a) /\ IsNum(b) /\ Abs(a - b) <= 5

\* the rotational velocity of panel i's centre about the geometric centre and
\* the panel's unit tangent, in the untransformed frame
PanelRotation(c, i, omega) ==
    LET j   == c.idx[2 * i - 1] + 1
        jp1 == c.idx[2 * i] + 1
        uxs == Val(c.ux)
        xc  == (uxs[1][j] + uxs[1][jp1]) \div 2
        yc  == (uxs[2][j] + uxs[2][jp1]) \div 2
        ex  == uxs[1][jp1] - uxs[1][j]
        ey  == uxs[2][jp1] - uxs[2][j]
        len == FHypot(ex, ey)
    IN  [u |-> FNeg(FMul(omega, yc - c.utc[2])),
         v |-> FMul(omega, xc - c.utc[1]),
         tan |-> << FDiv(ex, len), FDiv(ey, len) >>,
         norm |-> << FNeg(FDiv(ey, len)), FDiv(ex, len) >>]

\* the vortex contribution -(u*tan_x + v*tan_y)
DGamma(r) == FNeg(FAdd(FMul(r.u, r.tan[1]), FMul(r.v, r.tan[2])))

\* the source contribution as first stated, -(u*norm_x - v*norm_y)
DSigmaStated(r) == FNeg(FSub(FMul(r.u, r.norm[1]), FMul(r.v, r.norm[2])))

\* the source contribution -(u*tan_y - v*tan_x)
DSigma(r) == FNeg(FSub(FMul(r.u, r.tan[2]), FMul(r.v, r.tan[1])))

\* add_rot_strengths_base gets past its early returns and its assertions
RotApplies ==
    /\ Applied("add_rot_strengths_base")
    /\ coll.hasB /\ body.name # "ground"
    /\ Has(coll.ps) /\ Len(Val(coll.ps)) = coll.np
    /\ coll.vol > 0 /\ coll.np > 0

\* entry i of rs[k] before the call; an array not yet made counts as zeros
OldRs(k, i) == IF Has(coll.rs[k]) /\ i <= Len(Val(coll.rs[k])) THEN Val(coll.rs[k])[i] ELSE 0

\* C13 as stated: add_rot_strengths_base(omega) on a surface with a non-ground
\* Body adds d_gamma = -(u*tan_x + v*tan_y) to ps[i] and rs[0][i] and adds
\* d_sigma = -(u*norm_x - v*norm_y), norm = (-tan_y, tan_x), to rs[1][i].
C13_RotStrengthsAsStated ==
    [][RotApplies =>
         \A i \in 1..coll.np :
            LET r == PanelRotation(coll, i, op'.arg[1])
            IN  /\ Close(Val(coll'.ps)[i], Val(coll.ps)[i] + DGamma(r))
                /\ Close(Val(coll'.rs[1])[i], OldRs(1, i) + DGamma(r))
                /\ Close(Val(coll'.rs[2])[i], OldRs(2, i) + DSigmaStated(r))]_vars

\* C13 amended: on a surface with a non-ground Body, a strength array of np
\* entries and a positive volume, add_rot_strengths_base(omega) adds
\* d_gamma = -(u*tan_x + v*tan_y) to ps[i] and rs[0][i] and adds
\* d_sigma = -(u*tan_y - v*tan_x) to rs[1][i] only, and changes nothing else.
C13_RotStrengths ==
    [][RotApplies =>
         /\ coll'.alive
         /\ \A i \in 1..coll.np :
              LET r == PanelRotation(coll, i, op'.arg[1])
              IN  /\ Close(Val(coll'.ps)[i], Val(coll.ps)[i] + DGamma(r))
                  /\ Close(Val(coll'.rs[1])[i], OldRs(1, i) + DGamma(r))
                  /\ Close(Val(coll'.rs[2])[i], OldRs(2, i) + DSigma(r))
         /\ coll' = [coll EXCEPT !.ps = coll'.ps, !.rs = coll'.rs]]_vars

\* add_rot_strengths_base has run a second time on a rotating triangle, so
\* both rs arrays held the first call's values
C13_Witness ==
    /\ op.name = "add_rot_strengths_base" /\ nops = 2
    /\ coll.alive /\ coll.np = 3 /\ coll.vol > 0
    /\ Has(coll.rs[2]) /\ \E i \in 1..3 : Abs(Val(coll.rs[2])[i]) > Unit \div 2


\* the vector returned by the represent_as_particles call that just ran
Returned == op'.arg[3]

StrengthAccessors ==
    {"get_str", "set_str", "get_max_str", "get_total_circ", "represent_as_particles"}

\* C15: on an inert collection every strength accessor (get_str, set_str,
\* get_max_str, get_total_circ, represent_as_particles) ends in an error: the
\* call does not return.
C15_InertAccessorsFail ==
    [][(nops' = nops + 1 /\ op'.name \in StrengthAccessors /\ coll.E = "inert")
         => ~coll'.alive]_vars


\* a Hybrid operation has just been entered
Entered(names) == nops' = nops + 1 /\ op'.name \in names

\* the operation just entered initialised the external solver
SolverInitialised == Count(calls', "solver.init_d") > 0

\* first_step or step entered on an inactive Hybrid does nothing at all
InactiveEntryIsIdle ==
    (Entered({"first_step", "step"}) /\ ~hyb.active) =>
       /\ calls' = <<>>
       /\ hyb' = hyb /\ euler' = euler /\ vort' = vort /\ frame' = frame

\* C16 as stated: the solver is initialised exactly when first_step or step is
\* entered with active = true and initialized = false, hence at most once
\* between two resets; an inactive first_step or step calls nobody and changes
\* neither initialized nor any collection.
C16_LazyInitAsStated ==
    [][/\ Entered({"set_active", "activate", "deactivate", "reset", "first_step", "step"}) =>
            (SolverInitialised <=>
               (op'.name \in {"first_step", "step"} /\ hyb.active /\ ~hyb.initialized))
       /\ hist'.inits <= hist'.resets + 1
       /\ InactiveEntryIsIdle]_vars

\* C16 amended: the solver is initialised exactly when first_step or step is
\* entered with active = true, initialized = false and exactly one Euler volume
\* (with another number of volumes that entry ends the program before any
\* solver call); it is initialised at most once between two resets; an inactive
\* first_step or step calls nobody and changes neither initialized nor any
\* collection.
C16_LazyInit ==
    [][/\ Entered({"set_active", "activate", "deactivate", "reset", "first_step", "step"}) =>
            /\ SolverInitialised <=>
                 (op'.name \in {"first_step", "step"} /\ hyb.active /\ ~hyb.initialized
                    /\ Len(euler) = 1)
            /\ (op'.name \in {"first_step", "step"} /\ hyb.active /\ ~hyb.initialized
                  /\ Len(euler) # 1) => (~hyb'.alive /\ calls' = <<>>)
       /\ hist'.inits <= hist'.resets + 1
       /\ InactiveEntryIsIdle]_vars

\* step was entered on a Hybrid that first_step had initialised, and did not
\* initialise the solver again
C16_Witness ==
    /\ op.name = "step" /\ nops = 3 /\ hyb.alive /\ hyb.initialized
    /\ hist.inits = 1 /\ hist.resets = 0
    /\ Count(calls, "solver.init_d") = 0 /\ Count(calls, "solver.solveto_d") = 1

\* C17: Hybrid::init needs exactly one Euler volume. With none or several it
\* fails before any call to the solver and initialized stays false; with one it
\* pushes the element order, sends the geometry, stores the solver's
\* open-boundary and solution points on the volume and sets initialized.
C17_InitNeedsOneVolume ==
    [][(Entered({"first_step", "step"}) /\ hyb.active /\ ~hyb.initialized) =>
         IF Len(euler) # 1
         THEN /\ ~hyb'.alive /\ ~hyb'.initialized
              /\ calls' = <<>> /\ euler' = euler
         ELSE /\ hyb'.alive /\ hyb'.initialized
              /\ Len(calls') >= 7
              /\ calls'[1] = "solver.set_elemorder_d"
              /\ calls'[3] = "solver.init_d"
              /\ calls'[5] = "euler.set_open_pts" /\ calls'[7] = "euler.set_soln_pts"
              /\ Has(euler'[1].open) /\ Has(euler'[1].soln)]_vars

\* first_step has initialised a Hybrid with one volume, which now holds the
\* solver's points
C17_Witness ==
    /\ op.name = "first_step" /\ hyb.alive /\ hyb.initialized
    /\ Len(euler) = 1 /\ Has(euler[1].soln) /\ Val(euler[1].soln) = MaxSoln
    /\ Count(calls, "solver.init_d") = 1

\* C18: the correction loop of part C always terminates: its body runs at most
\* 20 times for a volume, a pass is made only while the relative error is above
\* 0.01, and with an initial error of at most 0.01 no particle is inserted and
\* no merge is made.
C18_LoopTerminates ==
    /\ [](frame.iter <= maxiter)
    /\ [][(frame'.iter = frame.iter + 1 \/ vort' # vort) =>
            /\ frame.pc = "loop" /\ frame.thiserror > maxerror /\ frame.iter < maxiter
            /\ frame'.iter = frame.iter + 1
            /\ vort' = [vort EXCEPT !.adds = @ + 1, !.merges = @ + 1]]_vars
    /\ [][(frame.pc = "loop" /\ frame.iter = 0 /\ frame.thiserror <= maxerror) =>
            (vort' = vort /\ frame'.pc # "loop")]_vars
    /\ (frame.pc = "loop") ~> (frame.pc = "idle")

\* the loop has made its twentieth pass with the error still large
C18_Witness ==
    /\ frame.pc = "loop" /\ frame.iter = maxiter /\ frame.thiserror > maxerror
    /\ Count(calls, "vort.add_new") = maxiter

\* C19: when the normalising total, the sum of |eulvort[i] * mask_area[i]|, is
\* zero, the correction loop ends at once: no pass, no particle inserted,
\* whatever the deficit.
C19_ZeroTotalEndsLoop ==
    (frame.pc = "loop" /\ frame.totalcircmag = 0) =>
       (frame.iter = 0 /\ Count(calls, "vort.add_new") = 0)

\* C20: when the solver returns a vorticity vector whose length differs from
\* the volume's number of solution points, step fails before any particle is
\* added to or merged in the vorticity collections.
C20_WrongVortLengthFails ==
    [][(frame.pc = "volume" /\ calls' # calls
          /\ Len(frame'.eulvort) # Val(euler[frame.vol].soln)) =>
         /\ ~hyb'.alive
         /\ vort' = vort
         /\ Count(calls', "vort.add_new") = 0 /\ Count(calls', "merge_operation") = 0]_vars

\* step has stopped on a vector of two vorticities for one solution point
C20_Witness ==
    /\ ~hyb.alive /\ frame.pc = "volume" /\ op.name = "step"
    /\ Len(frame.eulvort) = 2 /\ Val(euler[frame.vol].soln) = 1
    /\ vort.adds = 0


\* C21: after from_json the stored knobs are within range, elementOrder in
\* 1..5, timeOrder in {1, 2, 4}, numSubsteps in 1..1000: a value out of range
\* is clamped, not stored as given.
C21_KnobsInRange ==
    op.name = "from_json" =>
       /\ hyb.elementOrder \in 1..5
       /\ hyb.timeOrder \in {1, 2, 4}
       /\ hyb.numSubsteps \in 1..1000

\* C28: whenever step calls the solver's solve_to, the element order last
\* pushed to the solver is the Hybrid's current elementOrder.
C28_PushedOrderIsCurrent ==
    (op.name = "step" /\ Count(calls, "solver.solveto_d") > 0) =>
       hyb.pushed = Some(hyb.elementOrder)

\* C29: whenever part C inserts correction particles, the list of vorticity
\* collections is not empty and its first entry is a Points collection; step
\* does not read _vort[0] of an empty list or of a list that begins with
\* another kind of collection.
C29_InsertsIntoPointsOnly ==
    [][(frame.pc = "loop" /\ calls' # calls) => vort.first = "points"]_vars


\* the places of the calls of one name in the running step
Places(name) == {k \in 1..Len(calls) : calls[k] = name}

\* every call of name a comes before every call of name b
Before(a, b) == \A i \in Places(a), j \in Places(b) : i < j

\* C24: within one active step the calls come in this order: lazy init when
\* needed, the BEM solve, the open-boundary velocities computed and sent to the
\* solver once per volume, solve_to once, the vorticities fetched once per
\* volume, then the insertions and merges of part C; no particle is inserted
\* before solve_to and no open-boundary velocity is sent after it.
C24_StepCallOrder ==
    (op.name = "step" /\ Len(calls) > 0) =>
       /\ Cardinality(Places("bem.solve_bem")) = 1
       /\ Cardinality(Places("solver.solveto_d")) = 1
       /\ Cardinality(Places("solver.setopenvels_d")) = Len(euler)
       /\ Before("solver.init_d", "bem.solve_bem")
       /\ Before("bem.solve_bem", "conv.find_vels")
       /\ Before("bem.solve_bem", "solver.setopenvels_d")
       /\ \E k \in Places("conv.find_vels") : \A j \in Places("solver.setopenvels_d") : k < j
       /\ Before("solver.setopenvels_d", "solver.solveto_d")
       /\ Before("solver.solveto_d", "solver.getallvorts_d")
       /\ Before("solver.getallvorts_d", "vort.add_new")
       /\ Before("solver.solveto_d", "vort.add_new")
       /\ Before("solver.solveto_d", "merge_operation")
       /\ Cardinality(Places("solver.getallvorts_d")) <= Len(euler)
       /\ (frame.pc = "idle" /\ hyb.alive) =>
             Cardinality(Places("solver.getallvorts_d")) = Len(euler)

\* a step that had to initialise the solver has returned after inserting
\* particles
C24_Witness ==
    /\ op.name = "step" /\ hyb.alive /\ frame.pc = "idle"
    /\ Cardinality(Places("solver.init_d")) = 1
    /\ Cardinality(Places("vort.add_new")) >= 2

\* the feature the last init_particles or step_particles was called on
Called == flow.flist[flow.k]

\* one particle: x, y, strength and a radius of zero
OneParticle(f) == << f.x, f.y, f.str, 0 >>

\* C22: a feature yields particles from init_particles only, except the
\* particle emitter, which yields exactly one particle (x, y, strength, radius)
\* from each step_particles and none from init_particles; a disabled feature
\* yields nothing from either call; the calls leave the feature as it was
C22_ParticlesAtInitOnly ==
    /\ op.name = "step_particles" =>
          flow.out = IF Called.type = "particle emitter" /\ Called.enabled
                     THEN OneParticle(Called) ELSE << >>
    /\ op.name = "init_particles" =>
          /\ ~Called.enabled => flow.out = << >>
          /\ Called.type = "particle emitter" => flow.out = << >>
          /\ (Called.type = "single particle" /\ Called.enabled) =>
                flow.out = OneParticle(Called)
          /\ Len(flow.out) % 4 = 0

C22_Witness ==
    /\ op.name = "step_particles"
    /\ Called.type = "particle emitter" /\ Called.enabled
    /\ flow.out = << Unit, 0, Unit \div 4, 0 >>

\* C23: a description that fails to parse (no type, a type that names no
\* feature, a required key missing or of the wrong kind) leaves the feature
\* list exactly as it was
C23_FailedParseKeepsList ==
    [][(op'.name = "parse_flow_json" /\ flow'.status # "ok") =>
          flow'.flist = flow.flist]_vars

\* C25: the operations of a step only read the Body: transform, move, set_str
\* and the rotation strengths leave its position, orientation and rotation
\* rate as they were
C25_BodyOnlyRead ==
    [][body' = body]_vars

\* the Surfaces a single construction makes of both batches
BuiltAtOnce ==
    LET b == Concatenated(op.arg[1], op.arg[2])
    IN  Surfaces(b.x, b.idx, b.val, coll.E, coll.M, coll.hasB)

\* C26: a Surfaces constructed from a first batch and extended by add_new with
\* a second has the n, np, x, idx, area, bases, boundary conditions and panel
\* strengths of one constructed from both batches at once
C26_IncrementalEqualsAtOnce ==
    (op.name = "add_new" /\ coll.alive) =>
       /\ coll.n = BuiltAtOnce.n /\ coll.np = BuiltAtOnce.np
       /\ coll.x = BuiltAtOnce.x /\ coll.idx = BuiltAtOnce.idx
       /\ coll.area = BuiltAtOnce.area /\ coll.b = BuiltAtOnce.b
       /\ coll.bc = BuiltAtOnce.bc /\ coll.ps = BuiltAtOnce.ps

\* C27: for a bodybound collection with a Body, ux[d] has length n after every
\* ElementBase::add_new and ElementBase::resize
C27_UxCoversNodes ==
    (coll.alive /\ coll.hasB /\ coll.M = "bodybound"
       /\ op.name \in {"add_new", "resize"}) =>
          /\ Has(coll.ux)
          /\ \A d \in 1..2 : Len(Val(coll.ux)[d]) = coll.n

\* the add_*_rot_strengths operations
RotOps ==
    { "add_rot_strengths_base", "add_rot_strengths",
      "add_unit_rot_strengths", "add_solved_rot_strengths" }

\* two strength arrays agree entry by entry, up to rounding
CloseSeq(a, b) == Len(a) = Len(b) /\ \A i \in 1..Len(a) : Close(a[i], b[i])

\* add_rot_strengths_base goes through on the surface c: no early return and
\* no failed assertion
RotGoesThrough(c) ==
    /\ c.alive /\ c.hasB /\ body.name # "ground"
    /\ Has(c.ps) /\ Len(Val(c.ps)) = c.np /\ c.vol > 0

\* C30: on a surface with a non-ground Body whose rs arrays exist,
\* add_rot_strengths_base(f) followed by add_rot_strengths_base(-f) brings ps,
\* rs[0] and rs[1] back to what they were (up to rounding); on a surface with
\* no Body, with the ground Body or with no ps, every add_*_rot_strengths
\* operation leaves ps and rs as they were
C30_RotStrengthsReversible ==
    [][/\ (/\ op.name = "add_rot_strengths_base"
           /\ op'.name = "add_rot_strengths_base" /\ nops' = nops + 1
           /\ op'.arg[1] = 0 - op.arg[1]
           /\ RotGoesThrough(coll)
           /\ Has(op.arg[2].rs[1]) /\ Has(op.arg[2].rs[2])) =>
              /\ coll'.alive
              /\ CloseSeq(Val(coll'.ps), Val(op.arg[2].ps))
              /\ CloseSeq(Val(coll'.rs[1]), Val(op.arg[2].rs[1]))
              /\ CloseSeq(Val(coll'.rs[2]), Val(op.arg[2].rs[2]))
       /\ (/\ op'.name \in RotOps /\ nops' = nops + 1
           /\ (~coll.hasB \/ body.name = "ground" \/ ~Has(coll.ps))) =>
              /\ coll'.ps = coll.ps
              /\ coll'.rs = coll.rs]_vars

\* on a rotating triangle whose rs arrays a first operation made, a second
\* add_rot_strengths_base(f) was followed by add_rot_strengths_base(-f), which
\* took strengths well away from where it found them
C30_Witness ==
    /\ op.name = "add_rot_strengths_base" /\ nops = 3
    /\ op.arg[3] = << "add_rot_strengths_base", 0 - op.arg[1] >>
    /\ RotGoesThrough(coll) /\ coll.np = 3
    /\ Has(op.arg[2].rs[1]) /\ Has(op.arg[2].rs[2])
    /\ \E i \in 1..3 : Abs(Val(coll.rs[2])[i] - Val(op.arg[2].rs[2])[i]) > Unit \div 10
=============================================================================
